---- MODULE Spec2Model ----
(***************************************************************************)
(* A model of dockit's two log viewers.                                    *)
(*                                                                         *)
(*  - pretty/logs_tui.go (package pretty): the streaming viewer logsModel, *)
(*    a bubbletea model whose Update handles key events, window resizes    *)
(*    and the messages of the stream reader (logMsg, errMsg).              *)
(*  - ui/logs.go (package ui): the static viewer LogsModel and its         *)
(*    fetchLogs command, which reads the whole log stream and decodes      *)
(*    Docker's 8-byte-header frames.                                       *)
(*                                                                         *)
(* Text is a sequence of bytes (naturals below 128).                       *)
(***************************************************************************)
EXTENDS Integers, Sequences, FiniteSets, TLC

VARIABLES
    m,          \* the streaming viewer's logsModel (package pretty)
    reading,    \* the number of readLogs commands outstanding
    quit,       \* tea.Quit was returned
    closed,     \* cleanup() ran: context cancelled, reader closed
    arrived,    \* history: every line the reader delivered, with the value of paused then
    nav,        \* history: the last event, when it was a match jump, and its starting offset
    track,      \* which history a run records: "none", "arrivals" or "nav"
    f,          \* one run of the static viewer's fetchLogs command (package ui)
    lm,         \* the static viewer's LogsModel (package ui)
    fetching,   \* the static viewer's fetchLogs command is outstanding
    last,       \* history: the last event the static viewer handled
    launch,     \* LaunchLogsTUI: where it is, and what it opened, cancelled and closed
    src,        \* the log stream as its source wrote it, and the reads still to come
    cli,        \* one run of the command-line router (package main)
    nm,         \* the networks view NetworksModel, its commands and the daemon's networks
    cm,         \* the containers view ContainersModel, its commands and the daemon's containers
    im,         \* the images view ImagesModel, its commands and the daemon's images
    vm,         \* the volumes view VolumesModel, its commands and the daemon's volumes
    app         \* the main Model of the TUI, with the last key it handled and the command it returned

vars == <<m, reading, quit, closed, arrived, nav, track, f, lm, fetching, last,
          launch, src, cli, nm, cm, im, vm, app>>

\* the variables of the static viewer and its fetch
staticVars == <<f, lm, fetching, last>>

\* the variables of the streaming viewer
streamVars == <<m, reading, quit, closed, arrived, nav, track, launch, src>>

\* the variables of the router and of the list views
appVars == <<cli, nm, cm, im, vm, app>>

(***************************************************************************)
(* Bounds of the model.                                                    *)
(***************************************************************************)
MaxLines == 3      \* lines the stream reader delivers in one run
MaxInput == 1      \* characters typed into the search input
MaxFrames == 2     \* frames of a short log stream
LongExtra == 2     \* frames of the longest log stream beyond the retained-line limit
MaxStream == 8      \* lines of a stream longer than the follow threshold

\* the most lines the source of a chunked stream writes
MaxSource == 2

\* the most arguments on the command line
MaxArgs == 2

\* the most commands and messages of a list view in flight when a key is pressed
MaxPending == 2

\* the largest scroll offset of the application the keys are followed to
MaxAppScroll == 10

(***************************************************************************)
(* Program constants.                                                      *)
(***************************************************************************)
Capacity == 500    \* the retained-line limit

(***************************************************************************)
(* Helpers: min and max of the source, text primitives.                    *)
(***************************************************************************)
min(a, b) == IF a < b THEN a ELSE b

max(a, b) == IF a > b THEN a ELSE b

\* strings.ToLower / the (?i) flag on ASCII bytes
ToLower(c) == IF c \in 65..90 THEN c + 32 ELSE c

LowerStr(s) == [k \in 1..Len(s) |-> ToLower(s[k])]

\* strings.Contains(s, sub)
Contains(s, sub) ==
    \E k \in 0..(Len(s) - Len(sub)) : SubSeq(s, k + 1, k + Len(sub)) = sub

(***************************************************************************)
(* The streaming viewer: lines as the scanner returns them.  The reader is *)
(* Docker's multiplexed stream, so a line normally starts with the 8-byte  *)
(* frame header; a TTY stream carries no header.                           *)
(***************************************************************************)
FrameHeader(size) == <<1, 0, 0, 0, 0, 0, 0, size>>

RawLines ==
    { FrameHeader(2) \o <<97>>,          \* framed "a"
      FrameHeader(3) \o <<65, 98>>,      \* framed "Ab"
      <<98>> }                           \* unframed "b"

\* the characters the user types into the search input: a and (
InputChars == {97, 40}

\* text := line.raw; if len(text) > 8 { text = text[8:] }
StripHeader(raw) == IF Len(raw) > 8 THEN SubSeq(raw, 9, Len(raw)) ELSE raw

\* regexp.Compile("(?i)" + pattern): the model's patterns are literals, and
\* a pattern holding an unmatched "(" does not compile
CompileOk(pattern) == \A k \in 1..Len(pattern) : pattern[k] # 40

\* searchPattern.MatchString(text) for a compiled (?i) literal
MatchString(pattern, text) == Contains(LowerStr(text), LowerStr(pattern))

NoPattern == [set |-> FALSE, src |-> <<>>]

Compiled(pattern) == [set |-> TRUE, src |-> pattern]

\* the test the match loops apply to line i (1-based)
LineMatches(mm, i) == MatchString(mm.searchPattern.src, StripHeader(mm.lines[i]))

contentHeight(mm) ==
    LET reserved == IF mm.searchMode THEN 4 ELSE 3
    IN  max(1, mm.height - reserved)

\* getVisibleLines(m.contentHeight()), as View calls it
getVisibleLines(mm) ==
    LET start == mm.scrollOffset
        end == min(start + contentHeight(mm), Len(mm.lines))
    IN  IF start >= Len(mm.lines) THEN <<>> ELSE SubSeq(mm.lines, start + 1, end)

updateMatchCount(mm) ==
    IF ~mm.searchPattern.set
    THEN [mm EXCEPT !.matchCount = 0]
    ELSE [mm EXCEPT !.matchCount =
             Cardinality({i \in 1..Len(mm.lines) : LineMatches(mm, i)})]

\* jumpToNextMatch without its second loop: no wrap to the beginning
jumpToNextMatch_NoWrap(mm) ==
    IF ~mm.searchPattern.set \/ mm.matchCount = 0
    THEN mm
    ELSE LET after == {i \in (mm.scrollOffset + 1)..(Len(mm.lines) - 1) :
                          LineMatches(mm, i + 1)}
         IN  IF after # {}
             THEN [mm EXCEPT !.scrollOffset = CHOOSE i \in after : \A j \in after : i <= j]
             ELSE mm

\* The source's indices are 0-based: line i of the source is lines[i + 1].
jumpToNextMatch(mm) ==
    IF ~mm.searchPattern.set \/ mm.matchCount = 0
    THEN mm
    ELSE LET after == {i \in (mm.scrollOffset + 1)..(Len(mm.lines) - 1) :
                          LineMatches(mm, i + 1)}
             wrap  == {i \in 0..mm.scrollOffset : LineMatches(mm, i + 1)}
         IN  IF after # {}
             THEN [mm EXCEPT !.scrollOffset = CHOOSE i \in after : \A j \in after : i <= j]
             ELSE IF wrap # {}
             THEN [mm EXCEPT !.scrollOffset = CHOOSE i \in wrap : \A j \in wrap : i <= j]
             ELSE mm

\* jumpToPrevMatch without its second loop: no wrap to the end
jumpToPrevMatch_NoWrap(mm) ==
    IF ~mm.searchPattern.set \/ mm.matchCount = 0
    THEN mm
    ELSE LET before == {i \in 0..(mm.scrollOffset - 1) : LineMatches(mm, i + 1)}
         IN  IF before # {}
             THEN [mm EXCEPT !.scrollOffset = CHOOSE i \in before : \A j \in before : i >= j]
             ELSE mm

jumpToPrevMatch(mm) ==
    IF ~mm.searchPattern.set \/ mm.matchCount = 0
    THEN mm
    ELSE LET before == {i \in 0..(mm.scrollOffset - 1) : LineMatches(mm, i + 1)}
             wrap   == {i \in mm.scrollOffset..(Len(mm.lines) - 1) : LineMatches(mm, i + 1)}
         IN  IF before # {}
             THEN [mm EXCEPT !.scrollOffset = CHOOSE i \in before : \A j \in before : i >= j]
             ELSE IF wrap # {}
             THEN [mm EXCEPT !.scrollOffset = CHOOSE i \in wrap : \A j \in wrap : i >= j]
             ELSE mm

(***************************************************************************)
(* The static viewer's fetchLogs (ui/logs.go): the bytes of the log        *)
(* stream, read to its end, are decoded frame by frame.                    *)
(*                                                                         *)
(* The input of a run is written by the runtime: a sequence of frames      *)
(* (payloads), followed by trailing bytes that are no complete frame.      *)
(***************************************************************************)
\* strings.TrimSpace on ASCII: tab, newline, vertical tab, form feed,
\* carriage return, space
IsSpace(c) == c \in {9, 10, 11, 12, 13, 32}

TrimSpace(s) ==
    LET keep == {k \in 1..Len(s) : ~IsSpace(s[k])}
    IN  IF keep = {} THEN <<>>
        ELSE SubSeq(s, CHOOSE k \in keep : \A j \in keep : k <= j,
                       CHOOSE k \in keep : \A j \in keep : k >= j)

\* the line fetchLogs returns when there is nothing to show: "No logs available"
NoLogsLine == <<78, 111, 32, 108, 111, 103, 115, 32, 97, 118, 97, 105, 108, 97, 98, 108, 101>>

\* the 8-byte header of a frame: stream tag, three zero bytes, and the
\* payload length, big-endian, in bytes 4-7
Header(size) ==
    <<1, 0, 0, 0,
      (size \div 16777216) % 256, (size \div 65536) % 256, (size \div 256) % 256, size % 256>>

RECURSIVE Encode(_)
\* the wire bytes of a sequence of frames
Encode(frames) ==
    IF frames = <<>> THEN <<>>
    ELSE Header(Len(Head(frames))) \o Head(frames) \o Encode(Tail(frames))

\* size := int(data[i+4])<<24 | int(data[i+5])<<16 | int(data[i+6])<<8 | int(data[i+7])
\* (i is 0-based: data[i] of the source is data[i + 1] here)
FrameSize(data, i) ==
    data[i + 5] * 16777216 + data[i + 6] * 65536 + data[i + 7] * 256 + data[i + 8]

\* if line != "" { logs = append(logs, line) }
AppendNonEmpty(logs, line) == IF line # <<>> THEN Append(logs, line) ELSE logs

\* ParseStep without strings.TrimSpace on a complete frame's payload
ParseStep_NoTrim(ff) ==
    IF ~(ff.i < Len(ff.data)) \/ ff.i + 8 > Len(ff.data)
    THEN [ff EXCEPT !.pc = "fallback"]
    ELSE LET size == FrameSize(ff.data, ff.i)
             i == ff.i + 8
         IN  IF i + size <= Len(ff.data)
             THEN [ff EXCEPT !.logs = AppendNonEmpty(@, SubSeq(ff.data, i + 1, i + size)),
                             !.i = i + size]
             ELSE [ff EXCEPT !.logs = AppendNonEmpty(@, TrimSpace(SubSeq(ff.data, i + 1, Len(ff.data)))),
                             !.i = i,
                             !.pc = "fallback"]

\* ParseStep taking the rest from the header on when the payload is short
\* (the cursor not yet moved past the header)
ParseStep_RestWithHeader(ff) ==
    IF ~(ff.i < Len(ff.data)) \/ ff.i + 8 > Len(ff.data)
    THEN [ff EXCEPT !.pc = "fallback"]
    ELSE LET size == FrameSize(ff.data, ff.i)
             i == ff.i + 8
         IN  IF i + size <= Len(ff.data)
             THEN [ff EXCEPT !.logs = AppendNonEmpty(@, TrimSpace(SubSeq(ff.data, i + 1, i + size))),
                             !.i = i + size]
             ELSE [ff EXCEPT !.logs = AppendNonEmpty(@, TrimSpace(SubSeq(ff.data, ff.i + 1, Len(ff.data)))),
                             !.i = i,
                             !.pc = "fallback"]

\* one iteration of the parse loop, or its exit
ParseStep(ff) ==
    IF ~(ff.i < Len(ff.data)) \/ ff.i + 8 > Len(ff.data)
    THEN [ff EXCEPT !.pc = "fallback"]
    ELSE LET size == FrameSize(ff.data, ff.i)
             i == ff.i + 8
         IN  IF i + size <= Len(ff.data)
             THEN [ff EXCEPT !.logs = AppendNonEmpty(@, TrimSpace(SubSeq(ff.data, i + 1, i + size))),
                             !.i = i + size]
             ELSE [ff EXCEPT !.logs = AppendNonEmpty(@, TrimSpace(SubSeq(ff.data, i + 1, Len(ff.data)))),
                             !.i = i,
                             !.pc = "fallback"]

RECURSIVE ScanLines(_)
\* bufio.Scanner over the data: the newline-delimited segments
ScanLines(data) ==
    IF data = <<>> THEN <<>>
    ELSE LET nl == {k \in 1..Len(data) : data[k] = 10}
         IN  IF nl = {} THEN <<data>>
             ELSE LET k == CHOOSE x \in nl : \A y \in nl : x <= y
                  IN  <<SubSeq(data, 1, k - 1)>> \o ScanLines(SubSeq(data, k + 1, Len(data)))

\* the fallback loop: every scanned line, trimmed, when it is not empty
FallbackLines(data) ==
    LET scanned == ScanLines(data)
        trimmed == [k \in 1..Len(scanned) |-> TrimSpace(scanned[k])]
    IN  SelectSeq(trimmed, LAMBDA line : line # <<>>)

\* lines 236-250: the fallback when the parse produced nothing, and the
\* placeholder when there is still nothing
FallbackStep(ff) ==
    LET logs1 == IF Len(ff.logs) = 0 THEN FallbackLines(ff.data) ELSE ff.logs
        logs2 == IF Len(logs1) = 0 THEN <<NoLogsLine>> ELSE logs1
    IN  [ff EXCEPT !.logs = logs2, !.pc = "limit"]

\* LimitStep keeping the first 500 lines: logs[:500]
LimitStep_KeepFirst(ff) ==
    LET kept == IF Len(ff.logs) > Capacity
                THEN SubSeq(ff.logs, 1, Capacity)
                ELSE ff.logs
    IN  [ff EXCEPT !.msg = [type |-> "logs", logs |-> kept], !.pc = "done"]

\* lines 252-257: logs[len(logs)-500:], returned as logsMsg
LimitStep(ff) ==
    LET kept == IF Len(ff.logs) > Capacity
                THEN SubSeq(ff.logs, Len(ff.logs) - Capacity + 1, Len(ff.logs))
                ELSE ff.logs
    IN  [ff EXCEPT !.msg = [type |-> "logs", logs |-> kept], !.pc = "done"]

\* the start of the command: GetContainerLogs and io.ReadAll, the empty stream
StartStep(ff, outcome) ==
    IF outcome # "ok"
    THEN [ff EXCEPT !.msg = [type |-> "err", logs |-> <<>>], !.failed = outcome,
                    !.pc = "done"]
    ELSE IF Len(ff.data) = 0
    THEN [ff EXCEPT !.msg = [type |-> "logs", logs |-> <<NoLogsLine>>], !.pc = "done"]
    ELSE [ff EXCEPT !.pc = "parse"]

NoTail == [kind |-> "none", bytes |-> <<>>]

\* a run of fetchLogs on the stream the runtime wrote: frames, then tail
NewFetch(frames, tail, data) ==
    [ frames |-> frames,
      tail   |-> tail,
      data   |-> data,
      failed |-> "no",
      pc     |-> "start",
      i      |-> 0,
      logs   |-> <<>>,
      msg    |-> [type |-> "none", logs |-> <<>>] ]

IdleFetch == [NewFetch(<<>>, NoTail, <<>>) EXCEPT !.pc = "idle"]

(***************************************************************************)
(* The static viewer LogsModel (ui/logs.go).  A string on display is a     *)
(* sequence of cells: a byte, and whether the match style is applied to    *)
(* it.                                                                     *)
(***************************************************************************)
\* a string shown as it is
Plain(s) == [k \in 1..Len(s) |-> [c |-> s[k], hl |-> FALSE]]

\* matchStyle.Render(s)
Render(s) == [k \in 1..Len(s) |-> [c |-> s[k], hl |-> TRUE]]

PlainLines(lines) == [k \in 1..Len(lines) |-> Plain(lines[k])]

\* the loop of highlightMatch from lastIndex on (0-based, as in the source)
RECURSIVE HighlightFrom(_, _, _)
HighlightFrom(line, term, lastIndex) ==
    LET termLower == LowerStr(term)
        lineLower == LowerStr(line)
        found == { k \in lastIndex..(Len(line) - Len(term)) :
                     SubSeq(lineLower, k + 1, k + Len(term)) = termLower }
    IN  IF found = {}
        THEN Plain(SubSeq(line, lastIndex + 1, Len(line)))
        ELSE LET actualIndex == CHOOSE k \in found : \A j \in found : k <= j
             IN  Plain(SubSeq(line, lastIndex + 1, actualIndex))
                   \o Render(SubSeq(line, actualIndex + 1, actualIndex + Len(term)))
                   \o HighlightFrom(line, term, actualIndex + Len(term))

highlightMatch(line, term) ==
    IF term = <<>> THEN Plain(line) ELSE HighlightFrom(line, term, 0)

\* fmt.Sprintf("No matches found for '%s'", term)
NoMatchesLine(term) ==
    <<78, 111, 32, 109, 97, 116, 99, 104, 101, 115, 32, 102, 111, 117, 110, 100,
      32, 102, 111, 114, 32, 39>> \o term \o <<39>>

\* the viewport of the bubbles library, as LogsModel uses it: its lines, its
\* offset and its height
NewViewport(height) == [lines |-> <<>>, YOffset |-> 0, Height |-> height]

maxYOffset(vp) == max(0, Len(vp.lines) - vp.Height)

GotoTop(vp) == [vp EXCEPT !.YOffset = 0]

GotoBottom(vp) == [vp EXCEPT !.YOffset = maxYOffset(vp)]

\* SetContent(strings.Join(lines, "\n")): the joined text is split on
\* newlines again, so no line at all becomes one empty line
SetContent(vp, lines) ==
    LET split == IF lines = <<>> THEN << <<>> >> ELSE lines
        set   == [vp EXCEPT !.lines = split]
    IN  IF set.YOffset > Len(split) - 1 THEN GotoBottom(set) ELSE set

LineUp(vp) ==
    IF vp.YOffset <= 0 THEN vp
    ELSE [vp EXCEPT !.YOffset = max(0, min(vp.YOffset - 1, maxYOffset(vp)))]

LineDown(vp) ==
    IF vp.YOffset >= maxYOffset(vp) THEN vp
    ELSE [vp EXCEPT !.YOffset = max(0, min(vp.YOffset + 1, maxYOffset(vp)))]

NewLogsModelStatic ==
    [ viewport     |-> NewViewport(20),
      logs         |-> <<>>,
      filteredLogs |-> <<>>,
      exit         |-> FALSE,
      err          |-> FALSE,
      ready        |-> FALSE,
      searchMode   |-> FALSE,
      searchInput  |-> <<>>,
      searchTerm   |-> <<>> ]

\* strings.Contains(strings.ToLower(line), searchLower), compared as typed
LineContains_CaseSensitive(line, term) == Contains(line, term)

\* strings.Contains(strings.ToLower(line), searchLower)
LineContains(line, term) == Contains(LowerStr(line), LowerStr(term))

\* filterLogs leaving the view as it is when the term is empty
filterLogs_KeepsFiltered(mm) ==
    IF mm.searchTerm = <<>>
    THEN mm
    ELSE LET matching    == SelectSeq(mm.logs, LAMBDA line : LineContains(line, mm.searchTerm))
             highlighted == [k \in 1..Len(matching) |-> highlightMatch(matching[k], mm.searchTerm)]
             filtered    == IF Len(highlighted) = 0
                            THEN << Plain(NoMatchesLine(mm.searchTerm)) >>
                            ELSE highlighted
         IN  [mm EXCEPT !.filteredLogs = filtered,
                        !.viewport = GotoTop(SetContent(mm.viewport, filtered))]

\* filterLogs keeping only the matching lines in logs as well
filterLogs_DropsLogs(mm) ==
    IF mm.searchTerm = <<>>
    THEN [mm EXCEPT !.filteredLogs = PlainLines(mm.logs),
                    !.viewport = SetContent(mm.viewport, PlainLines(mm.logs))]
    ELSE LET matching    == SelectSeq(mm.logs, LAMBDA line : LineContains(line, mm.searchTerm))
             highlighted == [k \in 1..Len(matching) |-> highlightMatch(matching[k], mm.searchTerm)]
             filtered    == IF Len(highlighted) = 0
                            THEN << Plain(NoMatchesLine(mm.searchTerm)) >>
                            ELSE highlighted
         IN  [mm EXCEPT !.logs = matching,
                        !.filteredLogs = filtered,
                        !.viewport = GotoTop(SetContent(mm.viewport, filtered))]

filterLogs(mm) ==
    IF mm.searchTerm = <<>>
    THEN [mm EXCEPT !.filteredLogs = PlainLines(mm.logs),
                    !.viewport = SetContent(mm.viewport, PlainLines(mm.logs))]
    ELSE LET matching    == SelectSeq(mm.logs, LAMBDA line : LineContains(line, mm.searchTerm))
             highlighted == [k \in 1..Len(matching) |-> highlightMatch(matching[k], mm.searchTerm)]
             filtered    == IF Len(highlighted) = 0
                            THEN << Plain(NoMatchesLine(mm.searchTerm)) >>
                            ELSE highlighted
         IN  [mm EXCEPT !.filteredLogs = filtered,
                        !.viewport = GotoTop(SetContent(mm.viewport, filtered))]

\* View: the number in "Filtered: %d matches for '%s'", shown while a term
\* is applied and the search input is closed
FilterBarShown(mm) == ~mm.err /\ ~mm.searchMode /\ mm.searchTerm # <<>>

matchCount(mm) == Len(mm.filteredLogs)

\* "Loading logs..."
LoadingLine == <<76, 111, 97, 100, 105, 110, 103, 32, 108, 111, 103, 115, 46, 46, 46>>

\* View: the lines of the content area
ViewContent(mm) ==
    IF mm.ready THEN mm.viewport.lines ELSE << Plain(LoadingLine) >>

(***************************************************************************)
(* The main Model of the TUI.  The views are numbered as their constants;  *)
(* key and cmd are the last key Update handled and the command it          *)
(* returned for it.                                                        *)
(***************************************************************************)
ContainersView == 0

ImagesView == 1

VolumesView == 2

NetworksView == 3

LogsView == 4

\* NewImagesModel; daemon holds the images the daemon has, cmds the commands
\* not yet run, msgs their messages not yet handled, key the last key handled
NewImagesModel ==
    [images |-> <<>>, cursor |-> 0, err |-> "",
     daemon |-> {}, cmds |-> <<>>, msgs |-> <<>>, key |-> ""]

\* NewVolumesModel, with daemon, cmds, msgs and key as in the images view
NewVolumesModel ==
    [volumes |-> <<>>, cursor |-> 0, err |-> "", statusMsg |-> "",
     actionInProgress |-> FALSE,
     daemon |-> {}, cmds |-> <<>>, msgs |-> <<>>, key |-> ""]

NewModel ==
    [currentView |-> ContainersView, showingHelp |-> FALSE, scrollOffset |-> 0,
     quit |-> FALSE, key |-> "", cmd |-> "none"]

(***************************************************************************)
(* The command-line router and the list views, not in use.                 *)
(***************************************************************************)
IdleCli ==
    [pc |-> "idle", args |-> <<>>, invoked |-> <<>>,
     child |-> [kind |-> "none", code |-> 0], status |-> 0]

\* NewNetworksModel; daemon holds the user networks the daemon has, cmds the
\* commands not yet run, msgs their messages not yet handled, removed the
\* names client.RemoveNetwork was called for
IdleNetworks ==
    [networks |-> <<>>, cursor |-> 0, err |-> "", statusMsg |-> "",
     actionInProgress |-> FALSE,
     daemon |-> {}, cmds |-> <<>>, msgs |-> <<>>, removed |-> {}]

\* NewContainersModel; daemon holds the containers the daemon has, cmds the
\* commands not yet run, msgs their messages not yet handled
IdleContainers ==
    [containers |-> <<>>, cursor |-> 0, err |-> "", statusMsg |-> "",
     actionInProgress |-> FALSE,
     daemon |-> {}, cmds |-> <<>>, msgs |-> <<>>]

(***************************************************************************)
(* LaunchLogsTUI: the model as constructed, and Init's first readLogs.     *)
(***************************************************************************)
NewLogsModel(follow) ==
    [ lines         |-> <<>>,
      scrollOffset  |-> 0,
      height        |-> 0,
      follow        |-> follow,
      paused        |-> FALSE,
      searchMode    |-> FALSE,
      searchInput   |-> <<>>,
      searchPattern |-> NoPattern,
      matchCount    |-> 0,
      currentMatch  |-> 0,
      done          |-> FALSE ]

\* terminal heights a WindowSizeMsg reports
Heights == {4, 5}

NoNav == [key |-> "", from |-> 0]

\* LaunchLogsTUI inside p.Run: the context and the reader are open
Launched == [pc |-> "run", ctx |-> TRUE, opened |-> TRUE,
             cancelled |-> FALSE, readerClosed |-> FALSE]

\* LaunchLogsTUI is entered: nothing is created yet
Launching == [pc |-> "client", ctx |-> FALSE, opened |-> FALSE,
              cancelled |-> FALSE, readerClosed |-> FALSE]

\* no log session was launched
NoLaunch == [pc |-> "none", ctx |-> FALSE, opened |-> FALSE,
             cancelled |-> FALSE, readerClosed |-> FALSE]

\* a stream whose bytes the model does not follow
NoSource == [lines |-> <<>>, chunks |-> <<>>, ended |-> FALSE, tty |-> TRUE]

\* the streaming viewer is not in use
StreamIdle ==
    /\ m = NewLogsModel(FALSE)
    /\ reading = 0
    /\ quit = FALSE
    /\ closed = FALSE
    /\ arrived = <<>>
    /\ nav = NoNav
    /\ track = "none"
    /\ launch = NoLaunch
    /\ src = NoSource

\* the static viewer is not in use
StaticIdle ==
    /\ f = IdleFetch
    /\ lm = NewLogsModelStatic
    /\ fetching = FALSE
    /\ last = ""

\* the router and the list views are not in use
AppIdle ==
    /\ cli = IdleCli
    /\ nm = IdleNetworks
    /\ cm = IdleContainers
    /\ app = NewModel
    /\ im = NewImagesModel
    /\ vm = NewVolumesModel

\* LaunchLogsTUI has built the model and Init has issued the first read
InitStream(t) ==
    /\ \E follow \in BOOLEAN : m = NewLogsModel(follow)
    /\ reading = 1
    /\ quit = FALSE
    /\ closed = FALSE
    /\ arrived = <<>>
    /\ nav = NoNav
    /\ track = t
    /\ launch = Launched
    /\ src = NoSource
    /\ f = IdleFetch
    /\ lm = NewLogsModelStatic
    /\ fetching = FALSE
    /\ last = ""
    /\ AppIdle

Init == InitStream("none")

\* LaunchLogsTUI from its first statement: no read is issued before p.Run
InitLaunch ==
    /\ \E follow \in BOOLEAN : m = NewLogsModel(follow)
    /\ reading = 0
    /\ quit = FALSE
    /\ closed = FALSE
    /\ arrived = <<>>
    /\ nav = NoNav
    /\ track = "none"
    /\ launch = Launching
    /\ src = NoSource
    /\ StaticIdle
    /\ AppIdle

InitHist == InitStream("arrivals")

InitNav == InitStream("nav")

\* payloads of the frames of a short stream: empty, blank, "a", " a\n",
\* "a\nb", "b"
Payloads == { <<>>, <<32>>, <<97>>, <<32, 97, 10>>, <<97, 10, 98>>, <<98>> }

\* what may follow the last complete frame: nothing; a fragment shorter than
\* a header ("bc", " ", "a\nb"); a header whose payload is cut short
\* (3 declared and "a", 4 declared and " a", 2 declared and " ", 1 declared
\* and nothing); unframed text of 8 bytes or more ("ab\nab\nab\nb")
Tails ==
    { NoTail,
      [kind |-> "fragment", bytes |-> <<98, 99>>],
      [kind |-> "fragment", bytes |-> <<32>>],
      [kind |-> "fragment", bytes |-> <<97, 10, 98>>],
      [kind |-> "partial", bytes |-> Header(3) \o <<97>>],
      [kind |-> "partial", bytes |-> Header(4) \o <<32, 97>>],
      [kind |-> "partial", bytes |-> Header(2) \o <<32>>],
      [kind |-> "partial", bytes |-> Header(1)],
      [kind |-> "text", bytes |-> <<97, 98, 10, 97, 98, 10, 97, 98, 10, 98>>] }

RECURSIVE SeqsUpTo(_, _)
\* the sequences over S of length at most n
SeqsUpTo(S, n) ==
    IF n = 0 THEN {<<>>}
    ELSE LET shorter == SeqsUpTo(S, n - 1)
         IN  shorter \cup {Append(q, x) : q \in shorter, x \in S}

\* a long stream of n one-byte frames, "b", "a", "b", ...
LongFrames(n) == [j \in 1..n |-> <<97 + (j % 2)>>]

\* its wire bytes, nine per frame
LongData(n) ==
    [k \in 1..(9 * n) |->
        LET r == (k - 1) % 9
            j == ((k - 1) \div 9) + 1
        IN  IF r = 0 \/ r = 7 THEN 1
            ELSE IF r = 8 THEN 97 + (j % 2)
            ELSE 0]

LongCounts == (Capacity - 1)..(Capacity + LongExtra)

FetchInputs ==
    {NewFetch(frames, tail, Encode(frames) \o tail.bytes) :
        frames \in SeqsUpTo(Payloads, MaxFrames), tail \in Tails}
    \cup {NewFetch(LongFrames(n), NoTail, LongData(n)) : n \in LongCounts}

\* a run of fetchLogs alone: the static viewer has issued it from Init
InitFetch ==
    /\ f \in FetchInputs
    /\ lm = NewLogsModelStatic
    /\ fetching = TRUE
    /\ last = ""
    /\ StreamIdle
    /\ AppIdle

FetchStart(outcome) ==
    /\ f.pc = "start"
    /\ f' = StartStep(f, outcome)
    /\ UNCHANGED <<streamVars, appVars, lm, fetching, last>>

FetchParse ==
    /\ f.pc = "parse"
    /\ f' = ParseStep(f)
    /\ UNCHANGED <<streamVars, appVars, lm, fetching, last>>

FetchFallback ==
    /\ f.pc = "fallback"
    /\ f' = FallbackStep(f)
    /\ UNCHANGED <<streamVars, appVars, lm, fetching, last>>

FetchLimit ==
    /\ f.pc = "limit"
    /\ f' = LimitStep(f)
    /\ UNCHANGED <<streamVars, appVars, lm, fetching, last>>

NextFetch ==
    \/ \E outcome \in {"ok", "openErr", "readErr"} : FetchStart(outcome)
    \/ FetchParse
    \/ FetchFallback
    \/ FetchLimit

\* the fetchLogs command of the static viewer, step by step
SpecFetch == InitFetch /\ [][NextFetch]_vars

(***************************************************************************)
(* The static viewer's Update: one action per message.                     *)
(***************************************************************************)
\* the lines a fetch delivers, and the characters typed into the search
LogLines == { <<97>>, <<65, 98>>, <<98>> }

LogsChars == {97, 66}

\* terminal heights a WindowSizeMsg reports to the static viewer
LogsHeights == {11, 12}

\* what fetchLogs returns as logsMsg: lines, never none at all
FetchedLogs ==
    { <<NoLogsLine>> } \cup
    UNION { [1..n -> LogLines] : n \in 1..MaxLines }

InitLogs ==
    /\ lm = NewLogsModelStatic
    /\ fetching = TRUE
    /\ last = ""
    /\ f = IdleFetch
    /\ StreamIdle
    /\ AppIdle

\* the main model drops the viewer once exit is set; the viewer belongs to
\* the TUI, not to a log session started by LaunchLogsTUI
Showing == ~lm.exit /\ launch.pc = "none"

LogsEvent(name) ==
    /\ last' = name
    /\ UNCHANGED <<streamVars, appVars, f>>

LogsSearchEnter ==
    /\ Showing /\ lm.searchMode
    /\ lm' = filterLogs([lm EXCEPT !.searchTerm = lm.searchInput, !.searchMode = FALSE])
    /\ UNCHANGED fetching
    /\ LogsEvent("enter")

\* esc in search mode dropping the applied term as well
LogsSearchEsc_ClearsTerm ==
    /\ Showing /\ lm.searchMode
    /\ lm' = [lm EXCEPT !.searchMode = FALSE, !.searchInput = <<>>, !.searchTerm = <<>>]
    /\ UNCHANGED fetching
    /\ LogsEvent("cancel")

LogsSearchEsc ==
    /\ Showing /\ lm.searchMode
    /\ lm' = [lm EXCEPT !.searchMode = FALSE, !.searchInput = <<>>]
    /\ UNCHANGED fetching
    /\ LogsEvent("cancel")

LogsSearchType(c) ==
    /\ Showing /\ lm.searchMode
    /\ Len(lm.searchInput) < MaxInput
    /\ lm' = [lm EXCEPT !.searchInput = Append(lm.searchInput, c)]
    /\ UNCHANGED fetching
    /\ LogsEvent("type")

LogsSearchBackspace ==
    /\ Showing /\ lm.searchMode
    /\ lm.searchInput # <<>>
    /\ lm' = [lm EXCEPT !.searchInput = SubSeq(lm.searchInput, 1, Len(lm.searchInput) - 1)]
    /\ UNCHANGED fetching
    /\ LogsEvent("type")

\* esc leaving the view at once, filter or not
LogsBack_ExitsAtOnce ==
    /\ Showing /\ ~lm.searchMode
    /\ lm' = [lm EXCEPT !.exit = TRUE]
    /\ UNCHANGED fetching
    /\ LogsEvent("back")

LogsBack ==
    /\ Showing /\ ~lm.searchMode
    /\ lm' = IF lm.searchTerm # <<>>
             THEN filterLogs([lm EXCEPT !.searchTerm = <<>>, !.searchInput = <<>>])
             ELSE [lm EXCEPT !.exit = TRUE]
    /\ UNCHANGED fetching
    /\ LogsEvent("back")

LogsSearch ==
    /\ Showing /\ ~lm.searchMode
    /\ lm' = [lm EXCEPT !.searchMode = TRUE]
    /\ UNCHANGED fetching
    /\ LogsEvent("search")

\* the key scrolls in the switch, and again in viewport.Update
LogsUp ==
    /\ Showing /\ ~lm.searchMode
    /\ lm' = [lm EXCEPT !.viewport = LineUp(LineUp(lm.viewport))]
    /\ UNCHANGED fetching
    /\ LogsEvent("up")

LogsDown ==
    /\ Showing /\ ~lm.searchMode
    /\ lm' = [lm EXCEPT !.viewport = LineDown(LineDown(lm.viewport))]
    /\ UNCHANGED fetching
    /\ LogsEvent("down")

LogsWindowSize(h) ==
    /\ Showing
    /\ lm' = IF ~lm.ready
             THEN [lm EXCEPT !.viewport = NewViewport(h - 10), !.ready = TRUE]
             ELSE [lm EXCEPT !.viewport.Height = h - 10]
    /\ UNCHANGED fetching
    /\ LogsEvent("resize")

LogsMsg(logs) ==
    /\ Showing /\ fetching
    /\ lm' = [lm EXCEPT !.logs = logs,
                        !.filteredLogs = PlainLines(logs),
                        !.ready = TRUE,
                        !.viewport = GotoBottom(SetContent(lm.viewport, PlainLines(logs)))]
    /\ fetching' = FALSE
    /\ LogsEvent("logs")

LogsErrMsg ==
    /\ Showing /\ fetching
    /\ lm' = [lm EXCEPT !.err = TRUE]
    /\ fetching' = FALSE
    /\ LogsEvent("err")

NextLogs ==
    \/ LogsSearchEnter
    \/ LogsSearchEsc
    \/ \E c \in LogsChars : LogsSearchType(c)
    \/ LogsSearchBackspace
    \/ LogsBack
    \/ LogsSearch
    \/ LogsUp
    \/ LogsDown
    \/ \E h \in LogsHeights : LogsWindowSize(h)
    \/ \E logs \in FetchedLogs : LogsMsg(logs)
    \/ LogsErrMsg

\* the static viewer from NewLogsModel on, its fetch outstanding
SpecLogs == InitLogs /\ [][NextLogs]_vars

\* an event that is no match jump and delivers no line
NoHistory ==
    /\ nav' = NoNav
    /\ UNCHANGED <<arrived, track, launch, src, staticVars, appVars>>

\* a match jump: the key and the offset it started from
RecordNav(key) ==
    /\ nav' = IF track = "nav" THEN [key |-> key, from |-> m.scrollOffset] ELSE NoNav
    /\ UNCHANGED <<arrived, track, launch, src, staticVars, appVars>>

\* the program handles messages until tea.Quit
Running == ~quit /\ launch.pc = "run"

(***************************************************************************)
(* logsModel.Update, tea.KeyMsg while searchMode is true.                  *)
(***************************************************************************)
\* ApplySearch dropping the pattern in effect when the new one does not compile
ApplySearch_InvalidClears(mm) ==
    LET m1 == [mm EXCEPT !.searchMode = FALSE]
        pattern == m1.searchInput
    IN  IF pattern # <<>>
        THEN IF CompileOk(pattern)
             THEN jumpToNextMatch(
                      [updateMatchCount([m1 EXCEPT !.searchPattern = Compiled(pattern)])
                           EXCEPT !.currentMatch = 0])
             ELSE [m1 EXCEPT !.searchPattern = NoPattern, !.matchCount = 0]
        ELSE [m1 EXCEPT !.searchPattern = NoPattern, !.matchCount = 0]

ApplySearch(mm) ==
    LET m1 == [mm EXCEPT !.searchMode = FALSE]
        pattern == m1.searchInput
    IN  IF pattern # <<>>
        THEN IF CompileOk(pattern)
             THEN jumpToNextMatch(
                      [updateMatchCount([m1 EXCEPT !.searchPattern = Compiled(pattern)])
                           EXCEPT !.currentMatch = 0])
             ELSE m1
        ELSE [m1 EXCEPT !.searchPattern = NoPattern, !.matchCount = 0]

SearchEnter ==
    /\ Running /\ m.searchMode
    /\ m' = ApplySearch(m)
    /\ UNCHANGED <<reading, quit, closed>>
    /\ NoHistory

SearchEsc ==
    /\ Running /\ m.searchMode
    /\ m' = [m EXCEPT !.searchMode = FALSE, !.searchInput = <<>>]
    /\ UNCHANGED <<reading, quit, closed>>
    /\ NoHistory

\* default: the key goes to the text input (a typed character, backspace)
SearchType(c) ==
    /\ Running /\ m.searchMode
    /\ Len(m.searchInput) < MaxInput
    /\ m' = [m EXCEPT !.searchInput = Append(@, c)]
    /\ UNCHANGED <<reading, quit, closed>>
    /\ NoHistory

SearchBackspace ==
    /\ Running /\ m.searchMode
    /\ m.searchInput # <<>>
    /\ m' = [m EXCEPT !.searchInput = SubSeq(@, 1, Len(@) - 1)]
    /\ UNCHANGED <<reading, quit, closed>>
    /\ NoHistory

(***************************************************************************)
(* logsModel.Update, tea.KeyMsg in normal mode.                            *)
(***************************************************************************)
\* q without m.cleanup()
KeyQuit_NoCleanup ==
    /\ Running /\ ~m.searchMode
    /\ quit' = TRUE
    /\ UNCHANGED <<m, reading, closed>>
    /\ NoHistory

KeyQuit ==
    /\ Running /\ ~m.searchMode
    /\ closed' = TRUE
    /\ quit' = TRUE
    /\ UNCHANGED <<m, reading>>
    /\ NoHistory

\* esc in normal mode: no case of the key switch names it, Update returns
\* the model as it is and no command
KeyEsc ==
    /\ Running /\ ~m.searchMode
    /\ UNCHANGED <<m, reading, quit, closed>>
    /\ RecordNav("esc")

KeySlash ==
    /\ Running /\ ~m.searchMode
    /\ m' = [m EXCEPT !.searchMode = TRUE]
    /\ UNCHANGED <<reading, quit, closed>>
    /\ NoHistory

KeyNext ==
    /\ Running /\ ~m.searchMode
    /\ m' = IF m.searchPattern.set THEN jumpToNextMatch(m) ELSE m
    /\ UNCHANGED <<reading, quit, closed>>
    /\ RecordNav("n")

KeyPrev ==
    /\ Running /\ ~m.searchMode
    /\ m' = IF m.searchPattern.set THEN jumpToPrevMatch(m) ELSE m
    /\ UNCHANGED <<reading, quit, closed>>
    /\ RecordNav("N")

\* space returning m.readLogs() as its command
KeySpace_IssuesRead ==
    /\ Running /\ ~m.searchMode
    /\ m' = [m EXCEPT !.paused = ~@]
    /\ reading' = reading + 1
    /\ UNCHANGED <<quit, closed>>
    /\ NoHistory

KeySpace ==
    /\ Running /\ ~m.searchMode
    /\ m' = [m EXCEPT !.paused = ~@]
    /\ UNCHANGED <<reading, quit, closed>>
    /\ NoHistory

KeyUp ==
    /\ Running /\ ~m.searchMode
    /\ m' = IF m.scrollOffset > 0 THEN [m EXCEPT !.scrollOffset = @ - 1] ELSE m
    /\ UNCHANGED <<reading, quit, closed>>
    /\ NoHistory

KeyDown ==
    /\ Running /\ ~m.searchMode
    /\ LET maxScroll == max(0, Len(m.lines) - contentHeight(m))
       IN  m' = IF m.scrollOffset < maxScroll THEN [m EXCEPT !.scrollOffset = @ + 1] ELSE m
    /\ UNCHANGED <<reading, quit, closed>>
    /\ NoHistory

KeyPgUp ==
    /\ Running /\ ~m.searchMode
    /\ m' = [m EXCEPT !.scrollOffset = max(0, @ - contentHeight(m))]
    /\ UNCHANGED <<reading, quit, closed>>
    /\ NoHistory

KeyPgDown ==
    /\ Running /\ ~m.searchMode
    /\ LET maxScroll == max(0, Len(m.lines) - contentHeight(m))
       IN  m' = [m EXCEPT !.scrollOffset = min(@ + contentHeight(m), maxScroll)]
    /\ UNCHANGED <<reading, quit, closed>>
    /\ NoHistory

KeyHome ==
    /\ Running /\ ~m.searchMode
    /\ m' = [m EXCEPT !.scrollOffset = 0]
    /\ UNCHANGED <<reading, quit, closed>>
    /\ NoHistory

\* end going one past the last line
KeyEnd_PastEnd ==
    /\ Running /\ ~m.searchMode
    /\ m' = [m EXCEPT !.scrollOffset = Len(m.lines)]
    /\ UNCHANGED <<reading, quit, closed>>
    /\ NoHistory

KeyEnd ==
    /\ Running /\ ~m.searchMode
    /\ m' = [m EXCEPT !.scrollOffset = max(0, Len(m.lines) - contentHeight(m))]
    /\ UNCHANGED <<reading, quit, closed>>
    /\ NoHistory

(***************************************************************************)
(* logsModel.Update: tea.WindowSizeMsg, logMsg, errMsg; and a read that    *)
(* ends at end of stream (readLogs returns a nil message).                 *)
(***************************************************************************)
WindowSize(h) ==
    /\ Running
    /\ m' = [m EXCEPT !.height = h]
    /\ UNCHANGED <<reading, quit, closed>>
    /\ NoHistory

\* OnLogMsg advancing whenever follow is set, however far the position is
\* from the end
OnLogMsg_AlwaysAdvances(mm, line) ==
    IF ~mm.paused
    THEN LET m1 == [mm EXCEPT !.lines = Append(@, line)]
             maxScroll == max(0, Len(m1.lines) - contentHeight(m1))
             m2 == IF m1.follow
                   THEN [m1 EXCEPT !.scrollOffset = maxScroll]
                   ELSE m1
         IN  updateMatchCount(m2)
    ELSE mm

\* case logMsg appending also while paused
OnLogMsg_AppendsWhilePaused(mm, line) ==
    LET m1 == [mm EXCEPT !.lines = Append(@, line)]
        maxScroll == max(0, Len(m1.lines) - contentHeight(m1))
        m2 == IF m1.follow /\ m1.scrollOffset >= maxScroll - 5
              THEN [m1 EXCEPT !.scrollOffset = maxScroll]
              ELSE m1
    IN  updateMatchCount(m2)

\* case logMsg without the call of updateMatchCount
OnLogMsg_NoRecount(mm, line) ==
    IF ~mm.paused
    THEN LET m1 == [mm EXCEPT !.lines = Append(@, line)]
             maxScroll == max(0, Len(m1.lines) - contentHeight(m1))
         IN  IF m1.follow /\ m1.scrollOffset >= maxScroll - 5
             THEN [m1 EXCEPT !.scrollOffset = maxScroll]
             ELSE m1
    ELSE mm

\* case logMsg
OnLogMsg(mm, line) ==
    IF ~mm.paused
    THEN LET m1 == [mm EXCEPT !.lines = Append(@, line)]
             maxScroll == max(0, Len(m1.lines) - contentHeight(m1))
             m2 == IF m1.follow /\ m1.scrollOffset >= maxScroll - 5
                   THEN [m1 EXCEPT !.scrollOffset = maxScroll]
                   ELSE m1
         IN  updateMatchCount(m2)
    ELSE mm

DeliverLine(line) ==
    /\ Running /\ reading > 0
    /\ m' = OnLogMsg(m, line)
    /\ reading' = reading - 1 + (IF m.done THEN 0 ELSE 1)
    /\ UNCHANGED <<quit, closed>>

\* a delivered line.  A line delivered while paused leaves lines as it is,
\* so without the history of deliveries only the appended lines count
\* against the bound.
LogMsg(line) ==
    /\ IF track = "arrivals"
       THEN Len(arrived) < MaxLines
       ELSE m.paused \/ Len(m.lines) < MaxLines
    /\ DeliverLine(line)
    /\ arrived' = IF track = "arrivals"
                  THEN Append(arrived, [line |-> line, paused |-> m.paused])
                  ELSE arrived
    /\ nav' = NoNav
    /\ UNCHANGED <<track, launch, src, staticVars, appVars>>

\* the same event in a long run of one repeated line
LogMsgLong ==
    /\ Len(m.lines) <= Capacity
    /\ DeliverLine(FrameHeader(2) \o <<97>>)
    /\ NoHistory

\* errMsg handled with the next read still issued
ErrMsg_KeepsReading ==
    /\ Running /\ reading > 0
    /\ m' = [m EXCEPT !.done = TRUE]
    /\ reading' = reading
    /\ UNCHANGED <<quit, closed>>
    /\ NoHistory

ErrMsg ==
    /\ Running /\ reading > 0
    /\ m' = [m EXCEPT !.done = TRUE]
    /\ reading' = reading - 1
    /\ UNCHANGED <<quit, closed>>
    /\ NoHistory

\* scanner.Scan() is false at end of stream: readLogs sets done on the copy
\* of the model its closure holds and returns nil, so Update is not called
ReadEOF ==
    /\ Running /\ reading > 0
    /\ reading' = reading - 1
    /\ UNCHANGED <<m, quit, closed>>
    /\ NoHistory

(***************************************************************************)
(* readLogs on a stream of bytes.  The source writes lines, each ended by  *)
(* a newline; every Read of the shared reader returns one chunk of them.   *)
(* bufio.NewScanner starts with an empty buffer, Scan reads chunks into it *)
(* until it holds a newline or the reader is at its end, and returns the   *)
(* bytes before the first newline.  The scanner, and what its buffer holds *)
(* beyond that newline, is dropped when readLogs returns.                  *)
(***************************************************************************)
Newline == 10

SourceTexts == {<<97>>, <<98>>}

RECURSIVE Written(_)
Written(lines) ==
    IF lines = <<>> THEN <<>>
    ELSE Head(lines) \o <<Newline>> \o Written(Tail(lines))

\* the bytes cut into the chunks the successive Reads return
RECURSIVE Chunked(_, _)
Chunked(bytes, cuts) ==
    IF cuts = {} THEN <<bytes>>
    ELSE LET c == CHOOSE x \in cuts : \A y \in cuts : x <= y
         IN  <<SubSeq(bytes, 1, c)>>
               \o Chunked(SubSeq(bytes, c + 1, Len(bytes)), {x - c : x \in cuts \ {c}})

Sources ==
    { [NoSource EXCEPT !.lines = l, !.chunks = Chunked(Written(l), cuts)] :
        <<l, cuts>> \in
          { <<l, cuts>> \in (UNION {[1..n -> SourceTexts] : n \in 1..MaxSource})
                              \X SUBSET (1..(2 * MaxSource - 1)) :
              cuts \subseteq 1..(Len(Written(l)) - 1) } }

HasNewline(buf) == \E i \in 1..Len(buf) : buf[i] = Newline

\* scanner.Scan: fill the buffer, one Read at a time
RECURSIVE Fill(_, _)
Fill(buf, chunks) ==
    IF HasNewline(buf) \/ chunks = <<>>
    THEN [buf |-> buf, rest |-> chunks]
    ELSE Fill(buf \o Head(chunks), Tail(chunks))

\* scanner.Text: the bytes before the first newline, or all of them at the
\* end of the reader
Token(buf) ==
    IF HasNewline(buf)
    THEN SubSeq(buf, 1, (CHOOSE i \in 1..Len(buf) :
                           buf[i] = Newline /\ \A j \in 1..(i - 1) : buf[j] # Newline) - 1)
    ELSE buf

InitRead ==
    /\ \E follow \in BOOLEAN : m = NewLogsModel(follow)
    /\ reading = 1
    /\ quit = FALSE
    /\ closed = FALSE
    /\ arrived = <<>>
    /\ nav = NoNav
    /\ track = "none"
    /\ launch = Launched
    /\ src \in Sources
    /\ StaticIdle
    /\ AppIdle

\* readLogs finds a line and Update handles the logMsg
ReadLine ==
    /\ src.chunks # <<>>
    /\ LET r == Fill(<<>>, src.chunks)
       IN  /\ DeliverLine(Token(r.buf))
           /\ src' = [src EXCEPT !.chunks = r.rest]
    /\ UNCHANGED <<arrived, nav, track, launch, staticVars, appVars>>

\* readLogs finds the reader at its end
ReadEnd ==
    /\ Running /\ reading > 0
    /\ src.chunks = <<>>
    /\ reading' = reading - 1
    /\ src' = [src EXCEPT !.ended = TRUE]
    /\ UNCHANGED <<m, quit, closed, arrived, nav, track, launch, staticVars, appVars>>

\* the streaming viewer reading a stream of bytes; pause is never toggled
NextRead ==
    \/ ReadLine
    \/ ReadEnd
    \/ KeyUp
    \/ KeyDown
    \/ KeyEnd

SpecRead == InitRead /\ [][NextRead]_vars

(***************************************************************************)
(* The command-line router: main and runDockerCommand.  args is            *)
(* os.Args[1:]; invoked is the command line of the child, empty when no    *)
(* child was started; child is how cmd.Run ended.                          *)
(***************************************************************************)
CliArgs == UNION {[1..n -> {"ps", "images", "run", "logs", "-a"}] : n \in 0..MaxArgs}

\* how cmd.Run can end: the child exits with a code, is killed by a signal
\* (ExitCode() is -1) or cannot be started
ChildOutcomes ==
    {[kind |-> "exit", code |-> c] : c \in {0, 1, 2, 125, 255}}
      \cup {[kind |-> "signal", code |-> -1], [kind |-> "nostart", code |-> 0]}

\* os.Exit: the status the parent of the process sees
ExitStatus(code) == code % 256

InitCli ==
    /\ cli \in {[IdleCli EXCEPT !.pc = "main", !.args = a] : a \in CliArgs}
    /\ nm = IdleNetworks
    /\ cm = IdleContainers
    /\ app = NewModel
    /\ im = NewImagesModel
    /\ vm = NewVolumesModel
    /\ StreamIdle
    /\ StaticIdle

\* exec.Command with the first argument left out
runDockerCommand_DropsFirst(c, args) ==
    [c EXCEPT !.pc = "child", !.invoked = <<"docker">> \o Tail(args)]

\* exec.Command("docker", args...)
runDockerCommand(c, args) ==
    [c EXCEPT !.pc = "child", !.invoked = <<"docker">> \o args]

\* main
CliMain ==
    /\ cli.pc = "main"
    /\ cli' = IF Len(cli.args) < 1
               THEN [cli EXCEPT !.pc = "exited", !.status = ExitStatus(0)]
               ELSE IF cli.args[1] \in {"ps", "images"}
               THEN [cli EXCEPT !.pc = "pretty"]
               ELSE runDockerCommand(cli, cli.args)
    /\ UNCHANGED <<streamVars, staticVars, nm, cm, im, vm, app>>

\* cmd.Run returns in runDockerCommand
CliChild(outcome) ==
    /\ cli.pc = "child"
    /\ cli' = [cli EXCEPT
                  !.pc = "exited",
                  !.child = outcome,
                  !.status = IF outcome.kind = "nostart" THEN ExitStatus(1)
                             ELSE ExitStatus(outcome.code)]
    /\ UNCHANGED <<streamVars, staticVars, nm, cm, im, vm, app>>

NextCli ==
    \/ CliMain
    \/ \E outcome \in ChildOutcomes : CliChild(outcome)

SpecCli == InitCli /\ [][NextCli]_vars

(***************************************************************************)
(* The networks view.  A command returned by Update runs on its own and    *)
(* sends its message back: NetRun runs one, NetDeliver hands one message   *)
(* to Update.                                                              *)
(***************************************************************************)
SystemNetworks == {"bridge", "host", "none"}

\* client.ListNetworks: the system networks and the user networks
ListNetworks(daemon) ==
    SelectSeq(<<"bridge", "app", "host", "none">>,
              LAMBDA n : n \in SystemNetworks \cup daemon)

\* Init returns m.refresh()
InitNet ==
    /\ nm = [IdleNetworks EXCEPT !.daemon = {"app"}, !.cmds = <<[op |-> "list", name |-> ""]>>]
    /\ cli = IdleCli
    /\ cm = IdleContainers
    /\ app = NewModel
    /\ im = NewImagesModel
    /\ vm = NewVolumesModel
    /\ StreamIdle
    /\ StaticIdle

Without(q, i) == SubSeq(q, 1, i - 1) \o SubSeq(q, i + 1, Len(q))

\* removeNetwork without the check of the name
removeNetwork_NoGuard(n) ==
    IF Len(n.networks) = 0 THEN n
    ELSE [n EXCEPT !.actionInProgress = TRUE,
                   !.cmds = Append(@, [op |-> "remove", name |-> n.networks[n.cursor + 1]])]

removeNetwork(n) ==
    IF Len(n.networks) = 0 THEN n
    ELSE LET net == n.networks[n.cursor + 1]
         IN  [n EXCEPT !.actionInProgress = TRUE,
                       !.cmds = Append(@, [op |-> IF net \in SystemNetworks
                                                  THEN "refuse" ELSE "remove",
                                           name |-> net])]

\* a key arrives while few enough commands and messages are in flight
NetKey(next) ==
    /\ Len(nm.cmds) + Len(nm.msgs) < MaxPending
    /\ nm' = next
    /\ UNCHANGED <<streamVars, staticVars, cli, cm, im, vm, app>>

\* esc while an error is shown
NetBack ==
    /\ nm.err # ""
    /\ NetKey([nm EXCEPT !.err = ""])

\* up (d = -1) and down (d = 1)
NetMove(d) ==
    NetKey([nm EXCEPT !.cursor = IF d = -1
                                 THEN (IF @ > 0 THEN @ - 1 ELSE @)
                                 ELSE (IF @ < Len(nm.networks) - 1 THEN @ + 1 ELSE @)])

NetRemove == NetKey(removeNetwork(nm))

NetRefresh == NetKey([nm EXCEPT !.cmds = Append(@, [op |-> "list", name |-> ""])])

\* the command cmds[i] runs; ok is whether the call to the daemon succeeds
NetRun(i, ok) ==
    /\ i \in 1..Len(nm.cmds)
    /\ LET c == nm.cmds[i]
           rest == [nm EXCEPT !.cmds = Without(@, i)]
           Send(n, msg) == [n EXCEPT !.msgs = Append(@, msg)]
           Err(kind) == [type |-> "err", list |-> <<>>, text |-> kind]
       IN  nm' =
             CASE c.op = "list" ->
                    Send(rest, IF ok
                               THEN [type |-> "networks", list |-> ListNetworks(nm.daemon), text |-> ""]
                               ELSE Err("daemon"))
               [] c.op = "refuse" -> Send(rest, Err("system"))
               [] c.op = "remove" ->
                    LET called == [rest EXCEPT !.removed = @ \cup {c.name}]
                    IN  IF ok /\ c.name \in nm.daemon
                        THEN Send([called EXCEPT !.daemon = @ \ {c.name}],
                                  [type |-> "action", list |-> <<>>, text |-> "Network removed"])
                        ELSE Send(called, Err("daemon"))
               [] c.op = "clear" -> Send(rest, [type |-> "clear", list |-> <<>>, text |-> ""])
    /\ UNCHANGED <<streamVars, staticVars, cli, cm, im, vm, app>>

\* Update handles the message msgs[i]
NetDeliver(i) ==
    /\ i \in 1..Len(nm.msgs)
    /\ LET msg == nm.msgs[i]
           rest == [nm EXCEPT !.msgs = Without(@, i)]
       IN  nm' =
             CASE msg.type = "networks" ->
                    [rest EXCEPT !.networks = msg.list,
                                 !.actionInProgress = FALSE,
                                 !.cursor = max(0, IF @ >= Len(msg.list)
                                                   THEN Len(msg.list) - 1 ELSE @)]
               [] msg.type = "action" ->
                    [rest EXCEPT !.statusMsg = msg.text,
                                 !.actionInProgress = FALSE,
                                 !.cmds = @ \o <<[op |-> "list", name |-> ""],
                                                 [op |-> "clear", name |-> ""]>>]
               [] msg.type = "err" ->
                    [rest EXCEPT !.err = msg.text, !.actionInProgress = FALSE]
               [] msg.type = "clear" -> [rest EXCEPT !.statusMsg = ""]
    /\ UNCHANGED <<streamVars, staticVars, cli, cm, im, vm, app>>

NextNet ==
    \/ NetBack
    \/ \E d \in {-1, 1} : NetMove(d)
    \/ NetRemove
    \/ NetRefresh
    \/ \E i \in 1..(MaxPending + 1), ok \in BOOLEAN : NetRun(i, ok)
    \/ \E i \in 1..(MaxPending + 1) : NetDeliver(i)

SpecNet == InitNet /\ [][NextNet]_vars

(***************************************************************************)
(* The containers view, commands and messages as in the networks view.     *)
(***************************************************************************)
\* client.ListContainers(true)
ListContainers(daemon) == SelectSeq(<<"web", "db">>, LAMBDA c : c \in daemon)

\* Init returns m.refresh()
InitCtr ==
    /\ cm = [IdleContainers EXCEPT !.daemon = {"web", "db"},
                                   !.cmds = <<[op |-> "list", id |-> ""]>>]
    /\ cli = IdleCli
    /\ nm = IdleNetworks
    /\ app = NewModel
    /\ im = NewImagesModel
    /\ vm = NewVolumesModel
    /\ StreamIdle
    /\ StaticIdle

\* a key arrives while few enough commands and messages are in flight
CtrKey(next) ==
    /\ Len(cm.cmds) + Len(cm.msgs) < MaxPending
    /\ cm' = next
    /\ UNCHANGED <<streamVars, staticVars, cli, nm, im, vm, app>>

\* esc while an error is shown
CtrBack ==
    /\ cm.err # ""
    /\ CtrKey([cm EXCEPT !.err = ""])

\* up (d = -1) and down (d = 1)
CtrMove(d) ==
    CtrKey([cm EXCEPT !.cursor = IF d = -1
                                 THEN (IF @ > 0 THEN @ - 1 ELSE @)
                                 ELSE (IF @ < Len(cm.containers) - 1 THEN @ + 1 ELSE @)])

\* startContainer, stopContainer, restartContainer, removeContainer
CtrAct(op) ==
    CtrKey(IF Len(cm.containers) = 0 THEN cm
           ELSE [cm EXCEPT !.actionInProgress = TRUE,
                           !.cmds = Append(@, [op |-> op, id |-> cm.containers[cm.cursor + 1]])])

CtrRefresh == CtrKey([cm EXCEPT !.cmds = Append(@, [op |-> "list", id |-> ""])])

\* the command cmds[i] runs; ok is whether the call to the daemon succeeds.
\* clearStatusMsg is an empty struct: the id of a clear command and the text
\* of its message only record which action started the timer, and Update
\* reads neither.
CtrRun(i, ok) ==
    /\ i \in 1..Len(cm.cmds)
    /\ LET c == cm.cmds[i]
           rest == [cm EXCEPT !.cmds = Without(@, i)]
           Send(n, msg) == [n EXCEPT !.msgs = Append(@, msg)]
           Err == [type |-> "err", list |-> <<>>, text |-> "daemon"]
       IN  cm' =
             CASE c.op = "list" ->
                    Send(rest, IF ok
                               THEN [type |-> "containers", list |-> ListContainers(cm.daemon), text |-> ""]
                               ELSE Err)
               [] c.op = "clear" -> Send(rest, [type |-> "clear", list |-> <<>>, text |-> c.id])
               [] OTHER ->
                    IF ok /\ c.id \in cm.daemon
                    THEN Send([rest EXCEPT !.daemon = IF c.op = "remove" THEN @ \ {c.id} ELSE @],
                              [type |-> "action", list |-> <<>>, text |-> c.op])
                    ELSE Send(rest, Err)
    /\ UNCHANGED <<streamVars, staticVars, cli, nm, im, vm, app>>

\* Update handles the message msgs[i]
CtrDeliver(i) ==
    /\ i \in 1..Len(cm.msgs)
    /\ LET msg == cm.msgs[i]
           rest == [cm EXCEPT !.msgs = Without(@, i)]
       IN  cm' =
             CASE msg.type = "containers" ->
                    [rest EXCEPT !.containers = msg.list,
                                 !.actionInProgress = FALSE,
                                 !.cursor = max(0, IF @ >= Len(msg.list)
                                                   THEN Len(msg.list) - 1 ELSE @)]
               [] msg.type = "action" ->
                    [rest EXCEPT !.statusMsg = msg.text,
                                 !.actionInProgress = FALSE,
                                 !.cmds = @ \o <<[op |-> "list", id |-> ""],
                                                 [op |-> "clear", id |-> msg.text]>>]
               [] msg.type = "err" ->
                    [rest EXCEPT !.err = msg.text, !.actionInProgress = FALSE]
               [] msg.type = "clear" -> [rest EXCEPT !.statusMsg = ""]
    /\ UNCHANGED <<streamVars, staticVars, cli, nm, im, vm, app>>

NextCtr ==
    \/ CtrBack
    \/ \E d \in {-1, 1} : CtrMove(d)
    \/ \E op \in {"start", "stop", "restart", "remove"} : CtrAct(op)
    \/ CtrRefresh
    \/ \E i \in 1..(MaxPending + 1), ok \in BOOLEAN : CtrRun(i, ok)
    \/ \E i \in 1..(MaxPending + 1) : CtrDeliver(i)

SpecCtr == InitCtr /\ [][NextCtr]_vars

(***************************************************************************)
(* formatLine, and a source whose lines are known: a multiplexed stream    *)
(* puts the frame header before every payload, a TTY stream carries the    *)
(* text alone.  The scanner of readLogs takes the newline off.             *)
(***************************************************************************)
formatLine(mm, raw) ==
    LET text == StripHeader(raw)
    IN  IF mm.searchPattern.set
        THEN IF ~MatchString(mm.searchPattern.src, text)
             THEN <<>>
             ELSE highlightMatch(text, mm.searchPattern.src)
        ELSE Plain(text)

\* the texts a source writes: an empty line, "a", and a line of ten letters
SourceLines == {<<>>, <<97>>, [k \in 1..10 |-> 96 + k]}

InitFormat ==
    /\ \E follow \in BOOLEAN : m = NewLogsModel(follow)
    /\ reading = 1
    /\ quit = FALSE
    /\ closed = FALSE
    /\ arrived = <<>>
    /\ nav = NoNav
    /\ track = "none"
    /\ launch = Launched
    /\ src \in {[NoSource EXCEPT !.tty = tty] : tty \in BOOLEAN}
    /\ StaticIdle
    /\ AppIdle

\* the source writes a line, readLogs scans it and Update appends it
SourceWrites(text) ==
    /\ Len(m.lines) < MaxLines
    /\ DeliverLine(IF src.tty THEN text ELSE FrameHeader(Len(text) + 1) \o text)
    /\ src' = [src EXCEPT !.lines = Append(@, text)]
    /\ UNCHANGED <<arrived, nav, track, launch, staticVars, appVars>>

\* lines arrive and the view is scrolled and resized; no pattern is set
NextFormat ==
    \/ \E text \in SourceLines : SourceWrites(text)
    \/ KeyUp
    \/ KeyDown
    \/ \E h \in Heights : WindowSize(h)

SpecFormat == InitFormat /\ [][NextFormat]_vars

(***************************************************************************)
(* The images view and the volumes view.  The items are the names a and b. *)
(***************************************************************************)
ListItems(daemon) == SelectSeq(<<"a", "b">>, LAMBDA n : n \in daemon)

\* a list message that leaves the cursor where it was
ClampCursor_Keeps(c, n) == c

\* imagesMsg, volumesMsg: the cursor is brought back inside a list of n items
ClampCursor(c, n) == max(0, IF c >= n THEN n - 1 ELSE c)

\* up (d = -1) and down (d = 1) on a list of n items
MoveCursor(c, n, d) ==
    IF d = -1 THEN (IF c > 0 THEN c - 1 ELSE c)
    ELSE (IF c < n - 1 THEN c + 1 ELSE c)

removeImage(i) ==
    IF Len(i.images) = 0 THEN i
    ELSE [i EXCEPT !.cmds = Append(@, [op |-> "remove", name |-> i.images[i.cursor + 1]])]

removeVolume(v) ==
    IF Len(v.volumes) = 0 THEN v
    ELSE [v EXCEPT !.actionInProgress = TRUE,
                   !.cmds = Append(@, [op |-> "remove", name |-> v.volumes[v.cursor + 1]])]

\* Init returns m.refresh(); the main model shows one of the four list views
InitLists ==
    /\ app \in {[NewModel EXCEPT !.currentView = v] :
                   v \in {ContainersView, ImagesView, VolumesView, NetworksView}}
    /\ cm = IF app.currentView = ContainersView
            THEN [IdleContainers EXCEPT !.daemon = {"web", "db"},
                                        !.cmds = <<[op |-> "list", id |-> ""]>>]
            ELSE IdleContainers
    /\ nm = IF app.currentView = NetworksView
            THEN [IdleNetworks EXCEPT !.daemon = {"app"},
                                      !.cmds = <<[op |-> "list", name |-> ""]>>]
            ELSE IdleNetworks
    /\ im = IF app.currentView = ImagesView
            THEN [NewImagesModel EXCEPT !.daemon = {"a", "b"},
                                        !.cmds = <<[op |-> "list", name |-> ""]>>]
            ELSE NewImagesModel
    /\ vm = IF app.currentView = VolumesView
            THEN [NewVolumesModel EXCEPT !.daemon = {"a", "b"},
                                         !.cmds = <<[op |-> "list", name |-> ""]>>]
            ELSE NewVolumesModel
    /\ cli = IdleCli
    /\ StreamIdle
    /\ StaticIdle

\* a key arrives at the images view while few enough commands are in flight
ImgKey(k, next) ==
    /\ app.currentView = ImagesView
    /\ Len(im.cmds) + Len(im.msgs) < MaxPending
    /\ im' = [next EXCEPT !.key = k]
    /\ UNCHANGED <<streamVars, staticVars, cli, nm, cm, vm, app>>

\* esc while an error is shown
ImgBack ==
    /\ im.err # ""
    /\ ImgKey("esc", [im EXCEPT !.err = ""])

ImgMove(d) ==
    ImgKey(IF d = -1 THEN "up" ELSE "down",
           [im EXCEPT !.cursor = MoveCursor(@, Len(im.images), d)])

ImgRemove == ImgKey("d", removeImage(im))

ImgRefresh == ImgKey("ctrl+r", [im EXCEPT !.cmds = Append(@, [op |-> "list", name |-> ""])])

\* the command cmds[i] runs; ok is whether the call to the daemon succeeds
ImgRun(i, ok) ==
    /\ i \in 1..Len(im.cmds)
    /\ LET c == im.cmds[i]
           rest == [im EXCEPT !.cmds = Without(@, i)]
           Send(n, msg) == [n EXCEPT !.msgs = Append(@, msg)]
           Err == [type |-> "err", list |-> <<>>, text |-> "daemon"]
       IN  im' =
             CASE c.op = "list" ->
                    Send(rest, IF ok
                               THEN [type |-> "images", list |-> ListItems(im.daemon), text |-> ""]
                               ELSE Err)
               [] c.op = "remove" ->
                    IF ok /\ c.name \in im.daemon
                    THEN Send([rest EXCEPT !.daemon = @ \ {c.name}],
                              [type |-> "action", list |-> <<>>, text |-> "Image removed"])
                    ELSE Send(rest, Err)
    /\ UNCHANGED <<streamVars, staticVars, cli, nm, cm, vm, app>>

\* Update handles the message msgs[i]
ImgDeliver(i) ==
    /\ i \in 1..Len(im.msgs)
    /\ LET msg == im.msgs[i]
           rest == [im EXCEPT !.msgs = Without(@, i)]
       IN  im' =
             CASE msg.type = "images" ->
                    [rest EXCEPT !.images = msg.list,
                                 !.cursor = ClampCursor(@, Len(msg.list))]
               [] msg.type = "action" ->
                    [rest EXCEPT !.cmds = Append(@, [op |-> "list", name |-> ""])]
               [] msg.type = "err" -> [rest EXCEPT !.err = msg.text]
    /\ UNCHANGED <<streamVars, staticVars, cli, nm, cm, vm, app>>

\* a key arrives at the volumes view while few enough commands are in flight
VolKey(k, next) ==
    /\ app.currentView = VolumesView
    /\ Len(vm.cmds) + Len(vm.msgs) < MaxPending
    /\ vm' = [next EXCEPT !.key = k]
    /\ UNCHANGED <<streamVars, staticVars, cli, nm, cm, im, app>>

\* esc while an error is shown
VolBack ==
    /\ vm.err # ""
    /\ VolKey("esc", [vm EXCEPT !.err = ""])

VolMove(d) ==
    VolKey(IF d = -1 THEN "up" ELSE "down",
           [vm EXCEPT !.cursor = MoveCursor(@, Len(vm.volumes), d)])

VolRemove == VolKey("d", removeVolume(vm))

VolRefresh == VolKey("ctrl+r", [vm EXCEPT !.cmds = Append(@, [op |-> "list", name |-> ""])])

\* the command cmds[i] runs; ok is whether the call to the daemon succeeds
VolRun(i, ok) ==
    /\ i \in 1..Len(vm.cmds)
    /\ LET c == vm.cmds[i]
           rest == [vm EXCEPT !.cmds = Without(@, i)]
           Send(n, msg) == [n EXCEPT !.msgs = Append(@, msg)]
           Err == [type |-> "err", list |-> <<>>, text |-> "daemon"]
       IN  vm' =
             CASE c.op = "list" ->
                    Send(rest, IF ok
                               THEN [type |-> "volumes", list |-> ListItems(vm.daemon), text |-> ""]
                               ELSE Err)
               [] c.op = "remove" ->
                    IF ok /\ c.name \in vm.daemon
                    THEN Send([rest EXCEPT !.daemon = @ \ {c.name}],
                              [type |-> "action", list |-> <<>>, text |-> "Volume removed"])
                    ELSE Send(rest, Err)
               [] c.op = "clear" -> Send(rest, [type |-> "clear", list |-> <<>>, text |-> ""])
    /\ UNCHANGED <<streamVars, staticVars, cli, nm, cm, im, app>>

\* Update handles the message msgs[i]
VolDeliver(i) ==
    /\ i \in 1..Len(vm.msgs)
    /\ LET msg == vm.msgs[i]
           rest == [vm EXCEPT !.msgs = Without(@, i)]
       IN  vm' =
             CASE msg.type = "volumes" ->
                    [rest EXCEPT !.volumes = msg.list,
                                 !.actionInProgress = FALSE,
                                 !.cursor = ClampCursor(@, Len(msg.list))]
               [] msg.type = "action" ->
                    [rest EXCEPT !.statusMsg = msg.text,
                                 !.actionInProgress = FALSE,
                                 !.cmds = @ \o <<[op |-> "list", name |-> ""],
                                                 [op |-> "clear", name |-> ""]>>]
               [] msg.type = "err" ->
                    [rest EXCEPT !.err = msg.text, !.actionInProgress = FALSE]
               [] msg.type = "clear" -> [rest EXCEPT !.statusMsg = ""]
    /\ UNCHANGED <<streamVars, staticVars, cli, nm, cm, im, app>>

\* the view the main model shows takes the keys and the messages
NextLists ==
    \/ /\ app.currentView = ContainersView
       /\ \/ \E d \in {-1, 1} : CtrMove(d)
          \/ \E op \in {"start", "remove"} : CtrAct(op)
          \/ CtrRefresh
          \/ \E i \in 1..(MaxPending + 1), ok \in BOOLEAN : CtrRun(i, ok)
          \/ \E i \in 1..(MaxPending + 1) : CtrDeliver(i)
    \/ /\ app.currentView = NetworksView
       /\ \/ \E d \in {-1, 1} : NetMove(d)
          \/ NetRemove
          \/ NetRefresh
          \/ \E i \in 1..(MaxPending + 1), ok \in BOOLEAN : NetRun(i, ok)
          \/ \E i \in 1..(MaxPending + 1) : NetDeliver(i)
    \/ ImgBack
    \/ \E d \in {-1, 1} : ImgMove(d)
    \/ ImgRemove
    \/ ImgRefresh
    \/ \E i \in 1..(MaxPending + 1), ok \in BOOLEAN : ImgRun(i, ok)
    \/ \E i \in 1..(MaxPending + 1) : ImgDeliver(i)
    \/ VolBack
    \/ \E d \in {-1, 1} : VolMove(d)
    \/ VolRemove
    \/ VolRefresh
    \/ \E i \in 1..(MaxPending + 1), ok \in BOOLEAN : VolRun(i, ok)
    \/ \E i \in 1..(MaxPending + 1) : VolDeliver(i)

SpecLists == InitLists /\ [][NextLists]_vars

(***************************************************************************)
(* Model.Update for a key.  The keys of the model are the global keys, a   *)
(* few keys of the views and the letter a.                                 *)
(***************************************************************************)
AppKeys ==
    {"?", "esc", "q", "tab", "shift+tab", "pgup", "pgdown", "j", "k", "a", "enter", "/"}

\* the character a key types into a text input, 0 for a key that types none
RuneOf(k) ==
    CASE k = "a" -> 97 [] k = "j" -> 106 [] k = "k" -> 107 [] k = "q" -> 113
      [] k = "?" -> 63 [] k = "/" -> 47 [] OTHER -> 0

\* LogsModel.Update for a key
LogsUpdateKey(mm, k) ==
    IF mm.searchMode
    THEN CASE k = "enter" ->
                filterLogs([mm EXCEPT !.searchTerm = mm.searchInput, !.searchMode = FALSE])
           [] k = "esc" -> [mm EXCEPT !.searchMode = FALSE, !.searchInput = <<>>]
           [] OTHER -> IF RuneOf(k) # 0
                       THEN [mm EXCEPT !.searchInput = Append(@, RuneOf(k))]
                       ELSE mm
    ELSE CASE k = "esc" ->
                IF mm.searchTerm # <<>>
                THEN filterLogs([mm EXCEPT !.searchTerm = <<>>, !.searchInput = <<>>])
                ELSE [mm EXCEPT !.exit = TRUE]
           [] k = "/" -> [mm EXCEPT !.searchMode = TRUE]
           [] k = "k" -> [mm EXCEPT !.viewport = LineUp(LineUp(mm.viewport))]
           [] k = "j" -> [mm EXCEPT !.viewport = LineDown(LineDown(mm.viewport))]
           [] OTHER -> mm

\* the help overlay letting every key through
HelpSwallows_Never(a) == FALSE

\* "Don't process other keys when help is showing"
HelpSwallows(a) == a.showingHelp

\* the TUI with the containers view not yet loaded, or with the logs view
\* just opened from it and its fetch outstanding
InitApp ==
    /\ \/ app = NewModel /\ fetching = FALSE
       \/ app = [NewModel EXCEPT !.currentView = LogsView, !.key = "L", !.cmd = "fetch"]
            /\ fetching = TRUE
    /\ lm = NewLogsModelStatic
    /\ last = ""
    /\ f = IdleFetch
    /\ cli = IdleCli
    /\ nm = IdleNetworks
    /\ cm = IdleContainers
    /\ im = NewImagesModel
    /\ vm = NewVolumesModel
    /\ StreamIdle

\* Model.Update, tea.KeyMsg.  The list views hold no items, so a key handed
\* to one of them changes nothing and returns no command.
AppKey(k) ==
    /\ ~app.quit
    /\ k \in {"pgdown", "j"} => app.scrollOffset + (IF k = "j" THEN 1 ELSE 10) <= MaxAppScroll
    /\ (app.currentView = LogsView /\ lm.searchMode /\ RuneOf(k) # 0) =>
          Len(lm.searchInput) < MaxInput
    /\ LET a == [app EXCEPT !.key = k, !.cmd = "none"]
           scrolled == [a EXCEPT !.scrollOffset =
                           IF k = "j" THEN @ + 1
                           ELSE IF k = "k" /\ @ > 0 THEN @ - 1 ELSE @]
           logs == LogsUpdateKey(lm, k)
       IN  IF k = "?"
           THEN app' = [a EXCEPT !.showingHelp = ~@] /\ lm' = lm
           ELSE IF app.showingHelp /\ k = "esc"
           THEN app' = [a EXCEPT !.showingHelp = FALSE] /\ lm' = lm
           ELSE IF HelpSwallows(app)
           THEN app' = a /\ lm' = lm
           ELSE CASE k = "q" ->
                       app' = [a EXCEPT !.quit = TRUE, !.cmd = "quit"] /\ lm' = lm
                  [] k = "tab" ->
                       app' = [a EXCEPT !.currentView = (@ + 1) % 4, !.cmd = "refresh"]
                         /\ lm' = lm
                  [] k = "shift+tab" ->
                       app' = [a EXCEPT !.currentView = (@ - 1 + 4) % 4,
                                        !.scrollOffset = 0, !.cmd = "refresh"]
                         /\ lm' = lm
                  [] k = "pgup" ->
                       app' = [a EXCEPT !.scrollOffset = max(0, @ - 10)] /\ lm' = lm
                  [] k = "pgdown" ->
                       app' = [a EXCEPT !.scrollOffset = @ + 10] /\ lm' = lm
                  [] OTHER ->
                       IF app.currentView = LogsView
                       THEN /\ lm' = logs
                            /\ app' = IF logs.exit
                                       THEN [scrolled EXCEPT !.currentView = ContainersView,
                                                             !.cmd = "refresh"]
                                       ELSE IF ~lm.searchMode /\ k = "/"
                                       THEN [scrolled EXCEPT !.cmd = "blink"]
                                       ELSE scrolled
                       ELSE app' = scrolled /\ lm' = lm
    /\ UNCHANGED <<streamVars, f, fetching, last, cli, nm, cm, im, vm>>

NextApp == \E k \in AppKeys : AppKey(k)

SpecApp == InitApp /\ [][NextApp]_vars

(***************************************************************************)
(* LaunchLogsTUI, statement by statement.  ok is the outcome of the call   *)
(* to the Docker client.                                                   *)
(***************************************************************************)
LaunchStep(next) ==
    /\ launch' = next
    /\ UNCHANGED <<m, quit, closed, arrived, nav, track, src, staticVars, appVars>>

\* client.NewClientWithOpts, then context.WithCancel
LaunchClient(ok) ==
    /\ launch.pc = "client"
    /\ LaunchStep(IF ok
                  THEN [launch EXCEPT !.pc = "inspect", !.ctx = TRUE]
                  ELSE [launch EXCEPT !.pc = "returned"])
    /\ UNCHANGED reading

\* cli.ContainerInspect
LaunchInspect(ok) ==
    /\ launch.pc = "inspect"
    /\ LaunchStep(IF ok
                  THEN [launch EXCEPT !.pc = "logs"]
                  ELSE [launch EXCEPT !.pc = "returned", !.cancelled = TRUE])
    /\ UNCHANGED reading

\* cli.ContainerLogs; on success the program starts and Init issues the
\* first read
LaunchOpen(ok) ==
    /\ launch.pc = "logs"
    /\ LaunchStep(IF ok
                  THEN [launch EXCEPT !.pc = "run", !.opened = TRUE]
                  ELSE [launch EXCEPT !.pc = "returned", !.cancelled = TRUE])
    /\ reading' = IF ok THEN 1 ELSE 0

\* p.Run returns an error
RunError ==
    /\ launch.pc = "run" /\ ~quit
    /\ LaunchStep([launch EXCEPT !.pc = "returned", !.cancelled = TRUE,
                                 !.readerClosed = TRUE])
    /\ UNCHANGED reading

\* p.Run returns after tea.Quit
RunReturns ==
    /\ launch.pc = "run" /\ quit
    /\ LaunchStep([launch EXCEPT !.pc = "returned"])
    /\ UNCHANGED reading

Next ==
    \/ SearchEnter
    \/ SearchEsc
    \/ \E c \in InputChars : SearchType(c)
    \/ SearchBackspace
    \/ KeyQuit
    \/ KeySlash
    \/ KeyNext
    \/ KeyPrev
    \/ KeySpace
    \/ KeyUp
    \/ KeyDown
    \/ KeyPgUp
    \/ KeyPgDown
    \/ KeyHome
    \/ KeyEnd
    \/ \E h \in Heights : WindowSize(h)
    \/ \E line \in RawLines : LogMsg(line)
    \/ ErrMsg
    \/ ReadEOF

\* the streaming viewer
Spec == Init /\ [][Next]_vars

\* a log session from the call of LaunchLogsTUI to its return
NextLaunch ==
    \/ \E ok \in BOOLEAN : LaunchClient(ok)
    \/ \E ok \in BOOLEAN : LaunchInspect(ok)
    \/ \E ok \in BOOLEAN : LaunchOpen(ok)
    \/ RunError
    \/ RunReturns
    \/ KeyQuit
    \/ KeySlash
    \/ SearchEsc
    \/ KeySpace
    \/ \E line \in RawLines : LogMsg(line)
    \/ ErrMsg
    \/ ReadEOF

SpecLaunch == InitLaunch /\ [][NextLaunch]_vars

\* the keys that end the session or search entry, between arriving lines
NextEnd ==
    \/ KeyQuit
    \/ KeyEsc
    \/ KeySlash
    \/ SearchEsc
    \/ KeySpace
    \/ \E line \in RawLines : LogMsg(line)

SpecEnd == InitNav /\ [][NextEnd]_vars

\* either viewer: a log session of LaunchLogsTUI, or the logs view of the TUI
InitViewers == Init \/ InitLogs

\* the keys that search, navigate matches, scroll and pause, and the
\* arrival of stream data, in both viewers
NextViewers ==
    \/ SearchEnter
    \/ SearchEsc
    \/ \E c \in InputChars : SearchType(c)
    \/ KeySlash
    \/ KeyNext
    \/ KeyPrev
    \/ KeySpace
    \/ KeyUp
    \/ KeyDown
    \/ \E line \in RawLines : LogMsg(line)
    \/ LogsSearchEnter
    \/ LogsSearchEsc
    \/ \E c \in LogsChars : LogsSearchType(c)
    \/ LogsBack
    \/ LogsSearch
    \/ LogsUp
    \/ LogsDown
    \/ \E logs \in FetchedLogs : LogsMsg(logs)

SpecViewers == InitViewers /\ [][NextViewers]_vars

\* the streaming viewer with the history of delivered lines
SpecHist == InitHist /\ [][Next]_vars

\* pause, search and scrolling between stream events, with the history of
\* delivered lines
NextPause ==
    \/ KeySpace
    \/ KeySlash
    \/ \E c \in InputChars : SearchType(c)
    \/ SearchEnter
    \/ KeyDown
    \/ \E line \in RawLines : LogMsg(line)
    \/ ErrMsg
    \/ ReadEOF

SpecPause == InitHist /\ [][NextPause]_vars

\* the streaming viewer with the history of match jumps
SpecNav == InitNav /\ [][Next]_vars

\* a long stream: only lines arrive, pause is toggled and the window resized
NextLong ==
    \/ LogMsgLong
    \/ KeySpace
    \/ \E h \in Heights : WindowSize(h)

SpecLong == Init /\ [][NextLong]_vars

\* a delivered line in a stream of some length, one line repeated
LogMsgStream ==
    /\ m.paused \/ Len(m.lines) < MaxStream
    /\ DeliverLine(FrameHeader(2) \o <<97>>)
    /\ NoHistory

\* a stream longer than the follow threshold: lines arrive, the user
\* scrolls, pauses and resizes
NextFollow ==
    \/ LogMsgStream
    \/ KeyUp
    \/ KeyDown
    \/ KeyHome
    \/ KeyEnd
    \/ KeySpace
    \/ \E h \in Heights : WindowSize(h)

SpecFollow == Init /\ [][NextFollow]_vars

(***************************************************************************)
(* Properties of the streaming viewer.                                     *)
(***************************************************************************)
RECURSIVE IsSubSeq(_, _)
\* s is a subsequence of t: its elements occur in t in the same order
IsSubSeq(s, t) ==
    IF s = <<>> THEN TRUE
    ELSE IF t = <<>> THEN FALSE
    ELSE IF Head(s) = Head(t) THEN IsSubSeq(Tail(s), Tail(t))
    ELSE IsSubSeq(s, Tail(t))

\* the lines that arrived while paused was true, in arrival order
PausedArrivals ==
    LET held == SelectSeq(arrived, LAMBDA r : r.paused)
    IN  [k \in 1..Len(held) |-> held[k].line]

\* C1: no line is lost because of pause: once pause is off, the buffer holds
\* every line the reader delivered while paused was true, in arrival order.
C1_NoLineLostByPause == ~m.paused => IsSubSeq(PausedArrivals, m.lines)

\* C2: the buffer of the streaming viewer never holds more than capacity
\* (500) lines.
C2_BufferWithinCapacity == Len(m.lines) <= Capacity

\* the 0-based indices of the buffered lines the active pattern matches
MatchIdx == {i \in 0..(Len(m.lines) - 1) : LineMatches(m, i + 1)}

FirstMatch == CHOOSE i \in MatchIdx : \A j \in MatchIdx : i <= j

LastMatch == CHOOSE i \in MatchIdx : \A j \in MatchIdx : i >= j

\* C10: with an active pattern and at least one matching line, next-match
\* from the last matching line lands on the first matching line, and
\* previous-match from the first matching line lands on the last one.
C10_WrapAround ==
    (m.searchPattern.set /\ MatchIdx # {}) =>
        /\ (nav.key = "n" /\ nav.from = LastMatch) => m.scrollOffset = FirstMatch
        /\ (nav.key = "N" /\ nav.from = FirstMatch) => m.scrollOffset = LastMatch

\* C10 witness: the n key was pressed on the last of several matching lines
\* and the position is now the first of them.
C10_Wrapped ==
    /\ m.searchPattern.set
    /\ Cardinality(MatchIdx) >= 2
    /\ nav.key = "n"
    /\ nav.from = LastMatch
    /\ m.scrollOffset = FirstMatch

(***************************************************************************)
(* Properties of fetchLogs.                                                *)
(***************************************************************************)
\* the payload texts of the frames, trimmed
TrimmedPayloads(frames) == [k \in 1..Len(frames) |-> TrimSpace(frames[k])]

NonBlank(texts) == SelectSeq(texts, LAMBDA line : line # <<>>)

\* the parse loop has ended: f.logs is what the frame parser produced
Parsed == f.pc = "fallback"

\* fetchLogs has returned its lines
Returned == f.pc = "done" /\ f.msg.type = "logs"

\* C3: fetchLogs returns at most 500 lines, and when more than 500 lines
\* were decoded it returns exactly the last 500 of them, in their order.
C3_LastLinesKept ==
    Returned =>
        /\ Len(f.msg.logs) <= Capacity
        /\ Len(f.logs) > Capacity =>
              /\ Len(f.msg.logs) = Capacity
              /\ \A k \in 1..Capacity :
                     f.msg.logs[k] = f.logs[Len(f.logs) - Capacity + k]

\* C3 witness: more frames were decoded than are returned.
C3_Truncated ==
    /\ Returned
    /\ Len(f.frames) > Capacity
    /\ Len(f.logs) = Len(f.frames)
    /\ Len(f.msg.logs) = Capacity

\* C4 as claimed: for a concatenation of valid frames the parser produces
\* exactly one line per frame, the trimmed payload, also for a frame whose
\* payload is empty or blank.
C4_OneLinePerFrame ==
    (Parsed /\ f.tail.kind = "none") => f.logs = TrimmedPayloads(f.frames)

\* C4 as amended: for a concatenation of valid frames the parser produces,
\* in input order, one line per frame whose payload is not blank, equal to
\* the trimmed payload; a frame with an empty or blank payload yields none.
C4_OneLinePerNonBlankFrame ==
    (Parsed /\ f.tail.kind = "none") => f.logs = NonBlank(TrimmedPayloads(f.frames))

\* C4 witness: two frames were parsed, one with a blank payload and one
\* whose payload had surrounding whitespace removed.
C4_ParsedFrames ==
    /\ Parsed /\ f.tail.kind = "none"
    /\ Len(f.frames) = 2
    /\ \E k \in 1..2 : TrimSpace(f.frames[k]) = <<>>
    /\ \E k \in 1..2 : TrimSpace(f.frames[k]) # <<>> /\ TrimSpace(f.frames[k]) # f.frames[k]
    /\ Len(f.logs) = 1

\* the lines of the newline-splitting fallback over the whole input
WholeInputLines ==
    IF FallbackLines(f.data) = <<>> THEN <<NoLogsLine>> ELSE FallbackLines(f.data)

\* the input carries no frame at all: it is text
Unframed == f.frames = <<>> /\ f.tail.kind \in {"fragment", "text"}

\* C5: for a non-empty input that is not valid framed data (here: text
\* without any frame header, shorter or longer than 8 bytes), fetchLogs
\* returns one line per non-empty newline-delimited segment of the whole
\* input.
C5_FallbackOnUnframed ==
    (Returned /\ Unframed) => f.msg.logs = WholeInputLines

\* the bytes that follow the header of a frame cut short
AfterHeader(tail) == SubSeq(tail.bytes, 9, Len(tail.bytes))

\* the input ends in a header whose payload is shorter than declared
CutShort == Len(f.tail.bytes) >= 8

\* C6 as claimed: a frame whose header is present but whose payload is
\* shorter than the declared length never produces a line.
C6_NoLineForPartialFrame ==
    (Parsed /\ CutShort) => f.logs = NonBlank(TrimmedPayloads(f.frames))

\* C6 as amended: such a frame ends the parse, and the bytes after its
\* header are emitted, trimmed, as the final line when they are not blank.
C6_PartialFrameEndsParse ==
    (Parsed /\ CutShort) =>
        f.logs = NonBlank(TrimmedPayloads(f.frames) \o <<TrimSpace(AfterHeader(f.tail))>>)

\* C6 witness: after a complete frame, a header declaring 4 bytes was
\* followed by 2, and the parse ended with their trimmed text as a line.
C6_PartialEmitted ==
    /\ Parsed /\ f.tail.kind = "partial"
    /\ Len(f.frames) >= 1
    /\ TrimSpace(AfterHeader(f.tail)) # <<>>
    /\ TrimSpace(AfterHeader(f.tail)) # AfterHeader(f.tail)
    /\ f.logs # <<>>
    /\ f.logs[Len(f.logs)] = TrimSpace(AfterHeader(f.tail))

\* the text of the trailing bytes: a fragment as it is, a frame cut short
\* without its header
TailText == IF CutShort THEN AfterHeader(f.tail) ELSE f.tail.bytes

EndsWith(s, t) == Len(t) <= Len(s) /\ SubSeq(s, Len(s) - Len(t) + 1, Len(s)) = t

\* the non-empty segments of the trailing text
TailLines == FallbackLines(TailText)

\* C7: at end of stream, trailing bytes that are no complete frame, also a
\* fragment shorter than a header after a valid frame, are emitted as the
\* final line and not dropped: the last line returned ends with the last
\* non-empty segment of the trailing text.
C7_TrailingBytesEmitted ==
    (Returned /\ TailLines # <<>>) =>
        EndsWith(f.msg.logs[Len(f.msg.logs)], TailLines[Len(TailLines)])

(***************************************************************************)
(* Claims about the static viewer's filter.                                *)
(***************************************************************************)
Text(d) == [k \in 1..Len(d) |-> d[k].c]

Texts(ds) == [k \in 1..Len(ds) |-> Text(ds[k])]

\* the buffer lines that contain the applied term, case-insensitively
MatchingLogs ==
    SelectSeq(lm.logs, LAMBDA line : Contains(LowerStr(line), LowerStr(lm.searchTerm)))

Applied == last = "enter" /\ lm.searchTerm # <<>>

\* C8: right after a non-empty term is applied to a buffer in which a line
\* matches, the filtered view is exactly the buffer lines that contain the
\* term case-insensitively, in buffer order, and the count the filter bar
\* shows is their number.
C8_FilterKeepsMatches ==
    (Applied /\ MatchingLogs # <<>>) =>
        /\ Texts(lm.filteredLogs) = MatchingLogs
        /\ Texts(lm.viewport.lines) = MatchingLogs
        /\ FilterBarShown(lm)
        /\ matchCount(lm) = Len(MatchingLogs)

\* a term in another case than the line it matches was applied, and the
\* filter dropped some lines and kept others
C8_Filtered ==
    /\ Applied
    /\ MatchingLogs # <<>>
    /\ Len(MatchingLogs) < Len(lm.logs)
    /\ \E k \in 1..Len(MatchingLogs) : ~Contains(MatchingLogs[k], lm.searchTerm)
    /\ \E k \in 1..Len(lm.filteredLogs) : \E j \in 1..Len(lm.filteredLogs[k]) :
          lm.filteredLogs[k][j].hl

\* C9: when the applied term matches no line of a non-empty buffer, the
\* match count reported is 0 and the view shows the "No matches found"
\* placeholder.
C9_NoMatchCountsZero ==
    (Applied /\ lm.logs # <<>> /\ MatchingLogs = <<>>) =>
        /\ matchCount(lm) = 0
        /\ Texts(ViewContent(lm)) = << NoMatchesLine(lm.searchTerm) >>

\* C11: clearing the term after filtering (confirming an empty search, or
\* esc outside search entry) restores the view to exactly the buffer's
\* lines, in their order, without highlighting and with no term applied.
C11_ClearRestoresBuffer ==
    [][ (lm.searchTerm # <<>> /\ lm'.searchTerm = <<>>) =>
            /\ lm'.logs = lm.logs
            /\ lm'.filteredLogs = PlainLines(lm.logs)
            /\ lm.logs # <<>> => lm'.viewport.lines = PlainLines(lm.logs)
            /\ ~lm'.searchMode ]_vars

\* esc has cleared a filter over a buffer of several lines: the view did
\* not exit and shows the whole buffer
C11_Cleared ==
    /\ last = "back" /\ ~lm.exit
    /\ lm.searchTerm = <<>>
    /\ Len(lm.logs) >= 2
    /\ Texts(lm.viewport.lines) = lm.logs

\* C18: esc while composing a search leaves search entry and changes
\* neither the applied term, nor the filtered view and its count, nor the
\* buffer, nor the scroll position, whatever was typed.
C18_CancelKeepsFilter ==
    [][ LogsSearchEsc =>
            /\ ~lm'.searchMode /\ ~lm'.exit
            /\ lm'.searchTerm = lm.searchTerm
            /\ lm'.filteredLogs = lm.filteredLogs
            /\ lm'.logs = lm.logs
            /\ lm'.viewport = lm.viewport ]_vars

\* a search was cancelled while a filter that hides lines is applied
C18_CancelledWhileFiltered ==
    /\ last = "cancel"
    /\ lm.searchTerm # <<>>
    /\ Len(lm.filteredLogs) < Len(lm.logs)
    /\ FilterBarShown(lm)

\* C20: outside search entry, esc with a term applied clears it and does
\* not exit, esc with no term applied exits, and no other event of the
\* view sets exit.
C20_EscClearsThenExits ==
    [][ /\ (LogsBack /\ lm.searchTerm # <<>>) => (~lm'.exit /\ lm'.searchTerm = <<>>)
        /\ (LogsBack /\ lm.searchTerm = <<>>) => lm'.exit
        /\ (lm'.exit /\ ~lm.exit) =>
              (last' = "back" /\ lm.searchTerm = <<>> /\ ~lm.searchMode) ]_vars

\* the view was left by esc, its logs loaded
C20_Exited == lm.exit /\ last = "back" /\ lm.logs # <<>>

\* C13: when reading the opened stream fails after bytes were received
\* (here: complete frames with text), the lines already retrieved are kept
\* and returned for display.
C13_ReadErrorKeepsLines ==
    (f.pc = "done" /\ f.failed = "readErr" /\ NonBlank(TrimmedPayloads(f.frames)) # <<>>) =>
        /\ f.msg.type = "logs"
        /\ \A k \in 1..Len(f.frames) :
              TrimSpace(f.frames[k]) # <<>> =>
                  \E j \in 1..Len(f.msg.logs) : f.msg.logs[j] = TrimSpace(f.frames[k])

(***************************************************************************)
(* Claims about the streaming viewer's session, scrolling and search.      *)
(***************************************************************************)
\* C12: when a read fails after lines were received, the session is marked
\* done, every received line stays in the buffer, the scroll keys still
\* move over them, and no further read is issued.
C12_ReadErrorEndsReading ==
    [][ /\ (~m.done /\ m'.done) =>
              (m'.lines = m.lines /\ m'.scrollOffset = m.scrollOffset /\ reading' = 0)
        /\ m.done => (m'.done /\ reading' = 0 /\ m'.lines = m.lines)
        /\ (m.done /\ KeyUp /\ m.scrollOffset > 0) =>
              m'.scrollOffset = m.scrollOffset - 1
        /\ (m.done /\ KeyDown /\ m.scrollOffset < max(0, Len(m.lines) - contentHeight(m))) =>
              m'.scrollOffset = m.scrollOffset + 1 ]_vars

\* a read failed after several lines: the session is done, not quit, the
\* lines are in the buffer and the position is off the top
C12_DoneWithLines ==
    /\ m.done /\ reading = 0 /\ ~quit
    /\ Len(m.lines) >= 2
    /\ m.scrollOffset > 0

\* the line count the scroll keys work against: the streaming view keeps one
\* row per buffered line also while a pattern is set
ActiveLineCount == Len(m.lines)

\* C14: in every reachable state, 0 <= scrollOffset <=
\* max(0, activeLineCount - contentHeight).
C14_ScrollWithinRange ==
    /\ 0 <= m.scrollOffset
    /\ m.scrollOffset <= max(0, ActiveLineCount - contentHeight(m))

\* C16: a manual scroll-up sets follow to false (and follow becomes true
\* again once the user is back at the newest line).
C16_ScrollUpEndsFollow ==
    [][ ((KeyUp \/ KeyPgUp \/ KeyHome) /\ m'.scrollOffset < m.scrollOffset) =>
            ~m'.follow ]_vars

\* the line at the current position matches the text being confirmed
CurrentLineMatches ==
    /\ m.scrollOffset < Len(m.lines)
    /\ MatchString(m.searchInput, StripHeader(m.lines[m.scrollOffset + 1]))

\* C17: confirming a non-empty valid pattern moves to the first match at or
\* after the current position: when the line at scrollOffset matches, the
\* position stays on it.
C17_ConfirmStaysOnMatch ==
    [][ (SearchEnter /\ m.searchInput # <<>> /\ CompileOk(m.searchInput)
            /\ CurrentLineMatches) =>
            m'.scrollOffset = m.scrollOffset ]_vars

\* C19: confirming a text that is no valid regular expression leaves the
\* pattern in effect (or none), matchCount, the buffer and scrollOffset
\* unchanged; the session goes on in normal mode, where / opens the search
\* again.
C19_InvalidPatternIgnored ==
    /\ [][ (SearchEnter /\ m.searchInput # <<>> /\ ~CompileOk(m.searchInput)) =>
              /\ m'.searchPattern = m.searchPattern
              /\ m'.matchCount = m.matchCount
              /\ m'.lines = m.lines
              /\ m'.scrollOffset = m.scrollOffset
              /\ ~m'.searchMode
              /\ quit' = quit /\ reading' = reading ]_vars
    /\ []((Running /\ ~m.searchMode) => ENABLED KeySlash)

\* an invalid text was confirmed while a pattern with matches is in effect:
\* the input still holds the text, the pattern is the earlier one
C19_InvalidRejected ==
    /\ ~m.searchMode /\ ~quit
    /\ m.searchInput # <<>> /\ ~CompileOk(m.searchInput)
    /\ m.searchPattern.set /\ m.matchCount > 0

\* a step that appended a line while follow is set and pause is off
FollowedAppend == Len(m'.lines) = Len(m.lines) + 1 /\ m.follow /\ ~m.paused

\* the last valid offset once the line is appended
NewMaxScroll == max(0, Len(m'.lines) - contentHeight(m))

C21_NoStreamLeftOpen ==
    launch.pc = "returned" =>
        /\ launch.ctx => (launch.cancelled \/ closed)
        /\ launch.opened => (launch.readerClosed \/ closed)

\* the session was quit after a read error and LaunchLogsTUI returned
C21_QuitAfterReadError ==
    /\ launch.pc = "returned" /\ launch.opened
    /\ quit /\ m.done /\ Len(m.lines) > 0

(***************************************************************************)
(* C22: once the fetch of the static viewer has failed (err is set), no    *)
(* key enters search entry and no search term is applied: the term is      *)
(* left as it is, or dropped by the exit key.                              *)
(***************************************************************************)
C22_ErrorIsTerminal ==
    [][ lm.err =>
          /\ ~lm.searchMode => ~lm'.searchMode
          /\ lm'.searchTerm \in {lm.searchTerm, <<>>} ]_vars

(***************************************************************************)
(* C23: with pause never enabled, once the stream has ended the buffer is  *)
(* the sequence of lines the source wrote, however the bytes were split    *)
(* across the reads.                                                       *)
(***************************************************************************)
C23_BufferEqualsSource ==
    src.ended => m.lines = src.lines

C25_EscQuits ==
    nav.key = "esc" => (quit /\ closed)

(***************************************************************************)
(* C26: client.RemoveNetwork is never called for bridge, host or none.     *)
(* Remove pressed on such a network queues only the command that reports   *)
(* the error, and the Update that handles an error leaves actionInProgress *)
(* false and the list of networks as it was.                               *)
(***************************************************************************)
C26_SystemNetworksKept ==
    /\ [](nm.removed \cap SystemNetworks = {})
    /\ [][ /\ (NetRemove /\ nm.networks # <<>> /\ nm.networks[nm.cursor + 1] \in SystemNetworks) =>
                 /\ nm'.cmds = Append(nm.cmds, [op |-> "refuse", name |-> nm.networks[nm.cursor + 1]])
                 /\ nm'.networks = nm.networks /\ nm'.daemon = nm.daemon
           /\ (\E i \in 1..Len(nm.msgs) : nm.msgs[i].type = "err" /\ NetDeliver(i)) =>
                 /\ ~nm'.actionInProgress
                 /\ nm'.networks = nm.networks ]_vars

\* remove was refused for a system network, and the list still has it
C26_RemoveRefused ==
    /\ nm.err = "system" /\ ~nm.actionInProgress
    /\ nm.networks = <<"bridge", "app", "host", "none">>
    /\ nm.cursor = 2

(***************************************************************************)
(* C27: in the containers view, the Update that handles the message of a   *)
(* successful action or of a successful refresh clears the error: err is   *)
(* nil afterwards, so the list is shown again.                             *)
(***************************************************************************)
C27_SuccessClearsError ==
    [][ (\E i \in 1..Len(cm.msgs) :
            cm.msgs[i].type \in {"containers", "action"} /\ CtrDeliver(i)) =>
          cm'.err = "" ]_vars

(***************************************************************************)
(* C28: while paused is true, a delivered line, a read error and the end   *)
(* of the stream leave scrollOffset, the visible lines and matchCount as   *)
(* they are.                                                               *)
(***************************************************************************)
C28_PausedViewFrozen ==
    [][ (m.paused /\ ((\E line \in RawLines : LogMsg(line)) \/ ErrMsg \/ ReadEOF)) =>
          /\ m'.scrollOffset = m.scrollOffset
          /\ getVisibleLines(m') = getVisibleLines(m)
          /\ m'.matchCount = m.matchCount ]_vars

\* a line was delivered while paused, with lines on screen and pause still on
C28_DeliveredWhilePaused ==
    /\ m.paused /\ Len(m.lines) > 0
    /\ \E k \in 1..Len(arrived) : arrived[k].paused

(***************************************************************************)
(* C29: with no pattern active every buffered line is rendered as the text *)
(* its source wrote: the payload of its frame on a multiplexed stream,     *)
(* also when the payload is empty, and the whole line on a TTY stream.     *)
(***************************************************************************)
C29_RenderedAsWritten ==
    (~m.searchPattern.set /\ Len(m.lines) = Len(src.lines)) =>
        \A i \in 1..Len(m.lines) : formatLine(m, m.lines[i]) = Plain(src.lines[i])

(***************************************************************************)
(* C30: one read is outstanding after Init and never more than one: no     *)
(* step adds a read to those outstanding (the Update of a delivered line   *)
(* issues the one that replaces the read that delivered it), the keys are  *)
(* handled while a read is outstanding, and after a read error or the end  *)
(* of the stream none is outstanding.                                      *)
(***************************************************************************)
C30_OneReadOutstanding ==
    /\ reading = 1
    /\ [](reading <= 1)
    /\ [][reading' <= reading]_vars
    /\ [][(ErrMsg \/ ReadEOF) => reading' = 0]_vars
    /\ []((Running /\ ~m.searchMode /\ reading = 1) => (ENABLED KeySpace /\ ENABLED KeyQuit))

\* lines were delivered, pause was pressed in between, and a read is outstanding
C30_ReadAfterKeys ==
    /\ reading = 1 /\ ~m.done /\ ~quit
    /\ Len(m.lines) >= 2 /\ m.paused

(***************************************************************************)
(* C32: in every reachable state of the streaming viewer matchCount is the *)
(* number of buffered lines the pattern matches, and 0 without a pattern.  *)
(***************************************************************************)
C32_MatchCountExact ==
    m.matchCount =
        IF m.searchPattern.set
        THEN Cardinality({i \in 1..Len(m.lines) :
                            MatchString(m.searchPattern.src, StripHeader(m.lines[i]))})
        ELSE 0

\* a pattern is set that matches two of three buffered lines
C32_SomeLinesMatch ==
    /\ m.searchPattern.set /\ m.matchCount = 2 /\ Len(m.lines) = 3

(***************************************************************************)
(* C35: with a pattern set and scrollOffset on a matching line, next-match *)
(* followed by previous-match gives the scrollOffset it started from, and  *)
(* so does previous-match followed by next-match.                          *)
(***************************************************************************)
C35_NextPrevRoundTrip ==
    (m.searchPattern.set /\ m.scrollOffset < Len(m.lines)
       /\ LineMatches(m, m.scrollOffset + 1)) =>
        /\ jumpToPrevMatch(jumpToNextMatch(m)).scrollOffset = m.scrollOffset
        /\ jumpToNextMatch(jumpToPrevMatch(m)).scrollOffset = m.scrollOffset

\* n has wrapped from the last match to an earlier one
C35_OnMatchAfterWrap ==
    /\ nav.key = "n" /\ m.scrollOffset < nav.from
    /\ m.searchPattern.set /\ LineMatches(m, m.scrollOffset + 1)

(***************************************************************************)
(* C36: in every reachable state of the streaming viewer scrollOffset is   *)
(* not negative, and it is an index of the buffer when the buffer is not   *)
(* empty.                                                                  *)
(***************************************************************************)
C36_OffsetInsideBuffer ==
    /\ m.scrollOffset >= 0
    /\ Len(m.lines) > 0 => m.scrollOffset < Len(m.lines)

\* the offset is on the last of at least two lines
C36_OnLastLine ==
    /\ Len(m.lines) >= 2 /\ m.scrollOffset = Len(m.lines) - 1

(***************************************************************************)
(* C31: the retained lines change only when stream data arrives: a step    *)
(* that changes lines of the streaming viewer is the delivery of a line,   *)
(* and a step that changes logs of the static viewer is the delivery of    *)
(* the fetched logs.  Search, match navigation, scrolling and pause leave  *)
(* both as they are.                                                       *)
(***************************************************************************)
C31_KeysKeepBuffer ==
    [][ /\ m'.lines # m.lines => \E line \in RawLines : LogMsg(line)
        /\ lm'.logs # lm.logs => \E logs \in FetchedLogs : LogsMsg(logs) ]_vars

\* a term was applied in the static viewer: the view differs from the logs
C31_FilteredViewOfLogs ==
    /\ last = "enter" /\ lm.searchTerm # <<>>
    /\ lm.logs # <<>> /\ Texts(lm.filteredLogs) # lm.logs

(***************************************************************************)
(* C33: in the static viewer, whenever a search term is applied,           *)
(* filteredLogs and the content of the viewport are the filter of logs by  *)
(* that term (or the one line saying that nothing matches), also when the  *)
(* fetched logs arrive after the term was applied: checked here in the     *)
(* states right after that arrival.                                        *)
(***************************************************************************)
C33_FilterFollowsLogs ==
    (lm.searchTerm # <<>> /\ last = "logs") =>
        /\ lm.filteredLogs = filterLogs(lm).filteredLogs
        /\ lm.viewport.lines = filterLogs(lm).filteredLogs

(***************************************************************************)
(* C34: while the logs view is in search entry, a key other than enter and *)
(* esc does not quit the application, toggle the help overlay, switch the  *)
(* view or change the scroll offset of the application.                    *)
(***************************************************************************)
C34_SearchEntryOwnsKeys ==
    [][ (app.currentView = LogsView /\ lm.searchMode /\ ~app.showingHelp
         /\ \E k \in AppKeys \ {"enter", "esc"} : AppKey(k)) =>
          /\ app'.quit = app.quit
          /\ app'.showingHelp = app.showingHelp
          /\ app'.currentView = app.currentView
          /\ app'.scrollOffset = app.scrollOffset ]_vars

(***************************************************************************)
(* C38: while the help overlay is showing, a key other than the help key   *)
(* and esc changes neither the view, the scroll offset nor the logs view,  *)
(* returns no command and does not quit; the overlay stays.                *)
(***************************************************************************)
C38_HelpSwallowsKeys ==
    [][ (app.showingHelp /\ \E k \in AppKeys \ {"?", "esc"} : AppKey(k)) =>
          /\ app'.showingHelp
          /\ app'.currentView = app.currentView
          /\ app'.scrollOffset = app.scrollOffset
          /\ app'.quit = app.quit
          /\ app'.cmd = "none"
          /\ lm' = lm /\ cm' = cm /\ nm' = nm ]_vars

\* q was pressed under the help overlay of the logs view in search entry
C38_QuitKeyUnderHelp ==
    /\ app.showingHelp /\ app.key = "q" /\ ~app.quit
    /\ app.currentView = LogsView /\ lm.searchMode

(***************************************************************************)
(* C37: in each of the four list views the cursor stays between 0 and      *)
(* max(0, len(list) - 1) through every up, down and list result, and an    *)
(* action key pressed on an empty list adds no command and leaves          *)
(* actionInProgress as it was.                                             *)
(***************************************************************************)
C37_CursorInside(c, n) == 0 <= c /\ c <= max(0, n - 1)

C37_CursorAndEmptyList ==
    /\ [](/\ C37_CursorInside(cm.cursor, Len(cm.containers))
          /\ C37_CursorInside(im.cursor, Len(im.images))
          /\ C37_CursorInside(vm.cursor, Len(vm.volumes))
          /\ C37_CursorInside(nm.cursor, Len(nm.networks)))
    /\ [][ /\ (Len(cm.containers) = 0 /\ \E op \in {"start", "remove"} : CtrAct(op)) =>
               (cm'.cmds = cm.cmds /\ cm'.actionInProgress = cm.actionInProgress)
           /\ (Len(im.images) = 0 /\ ImgRemove) => im'.cmds = im.cmds
           /\ (Len(vm.volumes) = 0 /\ VolRemove) =>
               (vm'.cmds = vm.cmds /\ vm'.actionInProgress = vm.actionInProgress)
           /\ (Len(nm.networks) = 0 /\ NetRemove) =>
               (nm'.cmds = nm.cmds /\ nm'.actionInProgress = nm.actionInProgress) ]_vars

\* the remove key was the last key of the volumes view, whose list had not
\* arrived yet: the daemon still holds both volumes and the list is empty
C37_RemoveBeforeFirstList ==
    /\ app.currentView = VolumesView
    /\ vm.volumes = <<>> /\ vm.daemon = {"a", "b"}
    /\ vm.key = "d" /\ ~vm.actionInProgress
    /\ vm.cmds = <<[op |-> "list", name |-> ""]>> /\ vm.msgs = <<>>

(***************************************************************************)
(* C39: in the containers view, the clear timer started by one action      *)
(* leaves the status message of another action as it is.                   *)
(***************************************************************************)
C39_OwnTimerClears ==
    [][ \A i \in 1..Len(cm.msgs) :
          (/\ cm.msgs[i].type = "clear"
           /\ cm.statusMsg # ""
           /\ cm.msgs[i].text # cm.statusMsg
           /\ CtrDeliver(i)) => cm'.statusMsg = cm.statusMsg ]_vars

====
